---- MODULE Spec2Model ----
(***************************************************************************)
(* Rendering / scheduling core of RReader: PageViewState (layout,          *)
(* visibility, dispatch) on the UI thread and DecodeService's worker.      *)
(*                                                                         *)
(* f32 values are fixed-point integers: the real v is stored as v * Unit.  *)
(* All native page dimensions divide Unit and every zoom is a multiple of  *)
(* 2/Unit, so every product and quotient the layout computes is exact.     *)
(***************************************************************************)
EXTENDS Integers, Sequences, FiniteSets, TLC

VARIABLES
    \* PageViewState (UI thread)
    pages, orientation, view_offset, zoom, crop, total_width, total_height,
    view_size, visible_pages, cache,
    \* shared, mutex guarded snapshot
    visible_rect, page_bounds_map,
    \* channels
    task_chan, result_chan, resp_chan,
    \* decode thread locals; the snapshot locks the thread holds, in the order
    \* it acquired them
    decoder, task_queue, current_visible, w_pc, w_cur, w_locks,
    \* control position of the UI thread; the last API call and its return
    \* (update_visible_pages keeps the index and return of a jump_to_page it
    \* follows); what the worker's latest step did; keys queued with a
    \* duplicate skipped
    ui_pc, last_call, w_event, dups

uiVars == <<pages, orientation, view_offset, zoom, crop, total_width, total_height,
            view_size, visible_pages, cache>>
sharedVars == <<visible_rect, page_bounds_map>>
chanVars == <<task_chan, result_chan, resp_chan>>
workerVars == <<decoder, task_queue, current_visible, w_pc, w_cur, w_locks>>
obsVars == <<ui_pc, last_call, w_event, dups>>
vars == <<uiVars, sharedVars, chanVars, workerVars, obsVars>>

----------------------------------------------------------------------------
(* Bounds of the model *)
NumPages == 2
MaxChan == 1
MaxResults == 1
CacheCap == 2

(* Fixed point *)
Unit == 2 * 2000
Mul(a, b) == (a * b) \div Unit
Div(a, b) == (a * Unit) \div b
Abs(a) == IF a < 0 THEN -a ELSE a
Min(a, b) == IF a < b THEN a ELSE b

ZoomEps == Unit \div 1000
PreloadScreens == Unit
ThumbnailCapacity == 10
ImageCapacity == 24

None == <<>>
Some(v) == <<v>>

Rect(l, t, r, b) == [left |-> l, top |-> t, right |-> r, bottom |-> b]
RectWidth(rc) == rc.right - rc.left
RectHeight(rc) == rc.bottom - rc.top

----------------------------------------------------------------------------
(* PageInfo and Page *)
PageInfoNew(index, width, height) ==
    [index |-> index, width |-> width, height |-> height, scale |-> Unit,
     crop_bounds |-> None]

get_width(info, use_crop) ==
    IF use_crop /\ info.crop_bounds # None
    THEN RectWidth(info.crop_bounds[1]) ELSE info.width

get_height(info, use_crop) ==
    IF use_crop /\ info.crop_bounds # None
    THEN RectHeight(info.crop_bounds[1]) ELSE info.height

(* PageNode::new; the cache key prints the four edges with two decimals *)
PageNodeNew(page_index, bounds) ==
    [page_index |-> page_index, bounds |-> bounds,
     cache_key |-> <<page_index, (bounds.left * 100 + Unit \div 2) \div Unit,
                     (bounds.top * 100 + Unit \div 2) \div Unit,
                     (bounds.right * 100 + Unit \div 2) \div Unit,
                     (bounds.bottom * 100 + Unit \div 2) \div Unit>>]

(* TileConfig *)
MIN_BLOCK_SIZE == 768 * Unit
MAX_BLOCK_SIZE == 1024 * Unit
TileOverlap == Unit \div 1000
CeilDiv(a, b) == (a + b - 1) \div b

calc_block_count(length) ==
    IF length <= MIN_BLOCK_SIZE THEN 1
    ELSE LET c == CeilDiv(length, MAX_BLOCK_SIZE)
             block_count == IF c = 0 THEN 1 ELSE c
             actual_block_size == length \div block_count
         IN IF MIN_BLOCK_SIZE <= actual_block_size /\ actual_block_size <= MAX_BLOCK_SIZE
            THEN block_count
            ELSE CeilDiv(length, MIN_BLOCK_SIZE)

from_size(width, height) ==
    IF width <= MAX_BLOCK_SIZE /\ height <= MAX_BLOCK_SIZE
    THEN [x_blocks |-> 1, y_blocks |-> 1]
    ELSE [x_blocks |-> calc_block_count(width), y_blocks |-> calc_block_count(height)]

is_single_block(config) == config.x_blocks = 1 /\ config.y_blocks = 1

(* a grid whose outer tiles also reach past their outer edge *)
GridNodeUnclamped(index, config, x, y) ==
    LET base_left == (x * Unit) \div config.x_blocks
        base_top == (y * Unit) \div config.y_blocks
        base_right == ((x + 1) * Unit) \div config.x_blocks
        base_bottom == ((y + 1) * Unit) \div config.y_blocks
    IN PageNodeNew(index, Rect(base_left - TileOverlap, base_top - TileOverlap,
                               base_right + TileOverlap, base_bottom + TileOverlap))

(* the node of column x and row y of the grid *)
GridNode(index, config, x, y) ==
    LET base_left == (x * Unit) \div config.x_blocks
        base_top == (y * Unit) \div config.y_blocks
        base_right == ((x + 1) * Unit) \div config.x_blocks
        base_bottom == ((y + 1) * Unit) \div config.y_blocks
        left == IF x = 0 THEN base_left ELSE base_left - TileOverlap
        top == IF y = 0 THEN base_top ELSE base_top - TileOverlap
        right == IF x = config.x_blocks - 1 THEN base_right ELSE base_right + TileOverlap
        bottom == IF y = config.y_blocks - 1 THEN base_bottom ELSE base_bottom + TileOverlap
    IN PageNodeNew(index, Rect(left, top, right, bottom))

(* Page::invalidate_nodes: the node list for a page of the given size, rows
   first *)
invalidate_nodes(index, width, height) ==
    IF width <= 0 \/ height <= 0 THEN <<>>
    ELSE LET config == from_size(width, height)
         IN IF is_single_block(config)
            THEN <<PageNodeNew(index, Rect(0, 0, Unit, Unit))>>
            ELSE [k \in 1..(config.x_blocks * config.y_blocks) |->
                     GridNode(index, config, (k - 1) % config.x_blocks,
                              (k - 1) \div config.x_blocks)]

PageNew(info, width, height, x_offset, y_offset) ==
    [info |-> info, bounds |-> Rect(x_offset, y_offset, x_offset + width, y_offset + height),
     nodes |-> invalidate_nodes(info.index, width, height),
     width |-> width, height |-> height]

(* Page::update that leaves the bounds as they were *)
PageUpdateKeepingBounds(page, width, height, bounds, scale) ==
    [page EXCEPT !.width = width, !.height = height, !.info.scale = scale]

PageUpdate(page, width, height, bounds, scale) ==
    [page EXCEPT !.width = width, !.height = height, !.bounds = bounds,
                 !.info.scale = scale]

generate_thumbnail_key(page) == <<page.info.index, page.info.width, page.info.height>>

(* The documents the decoder can open: path -> page list (get_all_pages). *)
NativeW(i) == (1 + (i % 2)) * Unit
NativeH(i) == (1 + ((i \div 2) % 2)) * Unit
DocPages == [i \in 1..NumPages |-> PageInfoNew(i - 1, NativeW(i), NativeH(i))]
GoodPath == "a.pdf"
BadPath == "missing.pdf"
Paths == {GoodPath, BadPath}
PdfDecoderOpen(path) == IF path = GoodPath THEN Some(DocPages) ELSE None

----------------------------------------------------------------------------
(* Page Layout Engine *)
RECURSIVE LayoutVerticalLoop(_, _, _, _, _)
LayoutVerticalLoop(ps, i, current_y, scaled_width, crp) ==
    IF i > Len(ps) THEN [pages |-> ps, cursor |-> current_y]
    ELSE LET page_width == get_width(ps[i].info, crp = 1)
             page_height == get_height(ps[i].info, crp = 1)
             scale == Div(scaled_width, page_width)
             scaled_height == Mul(page_height, scale)
             bounds == Rect(0, current_y, scaled_width, current_y + scaled_height)
             np == PageUpdate(ps[i], scaled_width, scaled_height, bounds, scale)
         IN LayoutVerticalLoop([ps EXCEPT ![i] = np], i + 1,
                               current_y + scaled_height, scaled_width, crp)

(* layout_vertical that takes the viewport width as the target width *)
layout_vertical_unzoomed(ps, vsize, zm, crp) ==
    LET scaled_width == vsize[1]
        r == LayoutVerticalLoop(ps, 1, 0, scaled_width, crp)
    IN [pages |-> r.pages, total_width |-> scaled_width, total_height |-> r.cursor]

layout_vertical(ps, vsize, zm, crp) ==
    LET scaled_width == Mul(vsize[1], zm)
        r == LayoutVerticalLoop(ps, 1, 0, scaled_width, crp)
    IN [pages |-> r.pages, total_width |-> scaled_width, total_height |-> r.cursor]

RECURSIVE LayoutHorizontalLoop(_, _, _, _, _)
LayoutHorizontalLoop(ps, i, current_x, scaled_height, crp) ==
    IF i > Len(ps) THEN [pages |-> ps, cursor |-> current_x]
    ELSE LET page_width == get_width(ps[i].info, crp = 1)
             page_height == get_height(ps[i].info, crp = 1)
             scale == Div(scaled_height, page_height)
             scaled_width == Mul(page_width, scale)
             bounds == Rect(current_x, 0, current_x + scaled_width, scaled_height)
             np == PageUpdate(ps[i], scaled_width, scaled_height, bounds, scale)
         IN LayoutHorizontalLoop([ps EXCEPT ![i] = np], i + 1,
                                 current_x + scaled_width, scaled_height, crp)

(* layout_horizontal that reports the viewport width as the total width *)
layout_horizontal_viewport_total(ps, vsize, zm, crp) ==
    LET scaled_height == Mul(vsize[2], zm)
        r == LayoutHorizontalLoop(ps, 1, 0, scaled_height, crp)
    IN [pages |-> r.pages, total_width |-> vsize[1], total_height |-> scaled_height]

layout_horizontal(ps, vsize, zm, crp) ==
    LET scaled_height == Mul(vsize[2], zm)
        r == LayoutHorizontalLoop(ps, 1, 0, scaled_height, crp)
    IN [pages |-> r.pages, total_width |-> r.cursor, total_height |-> scaled_height]

(* recalculate_layout without the early return on an empty viewport *)
recalculate_layout_unguarded(ps, tw, th, ori, vsize, zm, crp) ==
    IF ori = "Vertical" THEN layout_vertical(ps, vsize, zm, crp)
    ELSE layout_horizontal(ps, vsize, zm, crp)

(* recalculate_layout: the layout triple after the call *)
recalculate_layout(ps, tw, th, ori, vsize, zm, crp) ==
    IF vsize[1] = 0 \/ vsize[2] = 0
    THEN [pages |-> ps, total_width |-> tw, total_height |-> th]
    ELSE IF ori = "Vertical" THEN layout_vertical(ps, vsize, zm, crp)
         ELSE layout_horizontal(ps, vsize, zm, crp)

----------------------------------------------------------------------------
(* Visibility Resolver *)
RECURSIVE FindFirstLoop(_, _, _, _, _, _)
FindFirstLoop(ps, ori, rc, low, high, result) ==
    IF ~(low < high) THEN result
    ELSE LET mid == (low + high) \div 2
             page == ps[mid + 1]
             is_visible == IF ori = "Vertical" THEN page.bounds.bottom > rc.top
                           ELSE page.bounds.right > rc.left
         IN IF is_visible THEN FindFirstLoop(ps, ori, rc, low, mid, mid)
            ELSE FindFirstLoop(ps, ori, rc, mid + 1, high, result)

find_first_visible(ps, ori, rc) == FindFirstLoop(ps, ori, rc, 0, Len(ps), Len(ps))

RECURSIVE FindLastLoop(_, _, _, _, _, _)
FindLastLoop(ps, ori, rc, low, high, result) ==
    IF ~(low < high) THEN result
    ELSE LET mid == (low + high) \div 2
             page == ps[mid + 1]
             is_visible == IF ori = "Vertical" THEN page.bounds.top < rc.bottom
                           ELSE page.bounds.left < rc.right
         IN IF is_visible THEN FindLastLoop(ps, ori, rc, mid + 1, high, mid)
            ELSE FindLastLoop(ps, ori, rc, low, mid, result)

find_last_visible(ps, ori, rc) == FindLastLoop(ps, ori, rc, 0, Len(ps), 0)

(* the expanded rectangle placed at the offset instead of its negation *)
ComputeVisibleRectUnnegated(ori, off, vsize) ==
    LET preload_distance == IF ori = "Vertical" THEN Mul(vsize[2], PreloadScreens)
                            ELSE Mul(vsize[1], PreloadScreens)
    IN IF ori = "Vertical"
       THEN Rect(off[1], off[2], off[1] + vsize[1], off[2] + vsize[2] + preload_distance)
       ELSE Rect(off[1], off[2], off[1] + vsize[1] + preload_distance, off[2] + vsize[2])

(* The expanded visible rectangle of update_visible_pages *)
ComputeVisibleRect(ori, off, vsize) ==
    LET preload_distance == IF ori = "Vertical" THEN Mul(vsize[2], PreloadScreens)
                            ELSE Mul(vsize[1], PreloadScreens)
    IN IF ori = "Vertical"
       THEN Rect(-off[1], -off[2], -off[1] + vsize[1], -off[2] + vsize[2] + preload_distance)
       ELSE Rect(-off[1], -off[2], -off[1] + vsize[1] + preload_distance, -off[2] + vsize[2])

(* visibility_checker that forgets the leading edge of the rectangle *)
visibility_checker_trailing_only(page_index, ori, rc, bounds_map) ==
    IF page_index \in DOMAIN bounds_map
    THEN LET page_bounds == bounds_map[page_index]
         IN IF ori = "Vertical" THEN page_bounds.top < rc.bottom
            ELSE page_bounds.left < rc.right
    ELSE FALSE

(* The closure handed to the worker: reads the shared snapshot under both locks *)
visibility_checker(page_index, ori, rc, bounds_map) ==
    IF page_index \in DOMAIN bounds_map
    THEN LET page_bounds == bounds_map[page_index]
         IN IF ori = "Vertical"
            THEN page_bounds.bottom > rc.top /\ page_bounds.top < rc.bottom
            ELSE page_bounds.right > rc.left /\ page_bounds.left < rc.right
    ELSE FALSE

----------------------------------------------------------------------------
(* Image Cache. An ImageCache is its max_size and its entries; the entries
   are kept as the sequence of keys ordered by timestamp, oldest first (every
   put and every get hit stamps its entry with a later Instant::now()). *)
ImageCacheNew(max_size) == [cache |-> <<>>, max_size |-> max_size]
CacheHas(c, key) == \E i \in 1..Len(c.cache) : c.cache[i] = key
CacheRemove(entries, key) == SelectSeq(entries, LAMBDA k : k # key)

(* get: a hit refreshes the entry's timestamp *)
ImageCacheGet(c, key) ==
    IF CacheHas(c, key) THEN [c EXCEPT !.cache = Append(CacheRemove(@, key), key)] ELSE c

(* evict_lru that removes the most recently stamped entry *)
evict_mru(entries) ==
    IF entries = <<>> THEN entries ELSE SubSeq(entries, 1, Len(entries) - 1)

evict_lru(entries) == IF entries = <<>> THEN entries ELSE Tail(entries)

(* remove: true when the key was stored *)
ImageCacheRemove(c, key) == [c EXCEPT !.cache = CacheRemove(@, key)]

(* put that makes room only when the cache is over its capacity *)
ImageCachePutOverfull(c, key) ==
    LET c1 == IF Len(c.cache) > c.max_size THEN evict_lru(c.cache) ELSE c.cache
    IN [c EXCEPT !.cache = Append(CacheRemove(c1, key), key)]

ImageCachePut(c, key) ==
    LET c1 == IF Len(c.cache) >= c.max_size THEN evict_lru(c.cache) ELSE c.cache
    IN [c EXCEPT !.cache = Append(CacheRemove(c1, key), key)]

ImageCacheClear(c) == [c EXCEPT !.cache = <<>>]

(* format!("{:.2}", zoom) *)
Round2(zm) == (zm * 100 + Unit \div 2) \div Unit
PageKey(page_index, zm) == <<"page", page_index, Round2(zm)>>
ThumbKey(key) == <<"thumb", key>>
get_page_image(ch, page_index, zm) ==
    [ch EXCEPT !.image_cache = ImageCacheGet(@, PageKey(page_index, zm))]
put_page_image(ch, page_index, zm) ==
    [ch EXCEPT !.image_cache = ImageCachePut(@, PageKey(page_index, zm))]
get_thumbnail(ch, key) == [ch EXCEPT !.thumbnail_cache = ImageCacheGet(@, ThumbKey(key))]
has_thumbnail(ch, key) == CacheHas(ch.thumbnail_cache, ThumbKey(key))
put_thumbnail(ch, key) == [ch EXCEPT !.thumbnail_cache = ImageCachePut(@, ThumbKey(key))]
PageCacheNew(max_images, max_thumbnails) ==
    [image_cache |-> ImageCacheNew(max_images),
     thumbnail_cache |-> ImageCacheNew(max_thumbnails)]
(* clear that leaves the thumbnail cache alone *)
PageCacheClearImagesOnly(ch) ==
    [image_cache |-> ImageCacheClear(ch.image_cache), thumbnail_cache |-> ch.thumbnail_cache]

PageCacheClear(ch) ==
    [image_cache |-> ImageCacheClear(ch.image_cache),
     thumbnail_cache |-> ImageCacheClear(ch.thumbnail_cache)]

----------------------------------------------------------------------------
(* Requests, tasks, results *)
RenderPage(key, page_info, crp) ==
    [key |-> key, page_info |-> page_info, crop |-> crp, priority |-> "Thumbnail",
     visibility_checker |-> TRUE]

(* PartialEq for RenderPage: the priority and the checker are not compared *)
RenderPageEq(a, b) ==
    /\ a.key = b.key
    /\ a.page_info.index = b.page_info.index
    /\ Abs(a.page_info.width - b.page_info.width) < Unit \div 10
    /\ Abs(a.page_info.height - b.page_info.height) < Unit \div 10
    /\ Abs(a.page_info.scale - b.page_info.scale) < ZoomEps
    /\ a.crop = b.crop

(* a request built by a caller of render_pages, without visibility callback *)
DirectRequest(page_info, priority) ==
    [key |-> generate_thumbnail_key(PageNew(page_info, 0, 0, 0, 0)), page_info |-> page_info,
     crop |-> 0, priority |-> priority, visibility_checker |-> FALSE]

RenderPagesTask(reqs) == [type |-> "RenderPages", pages |-> reqs, path |-> ""]
LoadDocumentTask(path) == [type |-> "LoadDocument", pages |-> <<>>, path |-> path]
GetOutlineTask == [type |-> "GetOutline", pages |-> <<>>, path |-> ""]
ShutdownTask == [type |-> "Shutdown", pages |-> <<>>, path |-> ""]

DecodeResult(req) == [key |-> req.key, page_info |-> req.page_info]

AllKeys == {generate_thumbnail_key(PageNew(DocPages[i], 0, 0, 0, 0)) : i \in 1..NumPages}
QueuedKeys(q) == {q[i].key : i \in 1..Len(q)}
CountKey(q, key) == Cardinality({i \in 1..Len(q) : q[i].key = key})

Call(op, idx, path, ret, ok) == [op |-> op, idx |-> idx, path |-> path, ret |-> ret, ok |-> ok]

----------------------------------------------------------------------------
(* Inputs of the consumer API *)
ViewSizeInputs == {<<0, 0>>, <<Unit, Unit>>, <<2 * Unit, Unit>>}
ZoomInputs == {Unit, Unit + 2, 2 * Unit}
OffsetInputs == {-2 * Unit, 0, 3 * Unit}
OffsetPairs == OffsetInputs \X OffsetInputs
SchedViewSizes == {<<Unit, Unit>>}
SchedZooms == {Unit}
SchedOffsets == {<<0, 0>>, <<-2 * Unit, -2 * Unit>>}
PageIndexInputs == 0..NumPages
CropInputs == {0, 1}
Orientations == {"Vertical", "Horizontal"}
DirectRequests ==
    {DirectRequest(DocPages[i], IF i % 2 = 1 THEN "Cropped" ELSE "Thumbnail") : i \in 1..NumPages}
DirectBatches ==
    {<<r>> : r \in DirectRequests}
    \cup {<<b[1], b[2]>> : b \in {c \in DirectRequests \X DirectRequests : c[1] # c[2]}}
VariantRequests ==
    {[DirectRequest(DocPages[i], "Thumbnail") EXCEPT !.crop = c] :
        i \in 1..NumPages, c \in CropInputs}
VariantBatches == {<<r>> : r \in VariantRequests}
SnapViewSizes == {<<Unit, Unit>>, <<2 * Unit, Unit>>}
TileLengths == {n * Unit : n \in {0, 500, 768, 769, 1024, 1025, 1536, 1537, 2048, 2049, 3000}}
CachePageInputs == 0..(NumPages - 1)
ThumbKeyInputs == {<<i, Unit, Unit>> : i \in 0..NumPages}

----------------------------------------------------------------------------
Init ==
    /\ pages = <<>>
    /\ orientation \in Orientations
    /\ view_offset = <<0, 0>>
    /\ zoom = Unit
    /\ crop = 0
    /\ total_width = 0
    /\ total_height = 0
    /\ view_size = <<0, 0>>
    /\ visible_pages = <<>>
    /\ cache = PageCacheNew(ImageCapacity, ThumbnailCapacity)
    /\ visible_rect = Rect(0, 0, 0, 0)
    /\ page_bounds_map = <<>>
    /\ task_chan = <<>>
    /\ result_chan = <<>>
    /\ resp_chan = <<>>
    /\ decoder = None
    /\ task_queue = <<>>
    /\ current_visible = {}
    /\ w_pc = "try_recv"
    /\ w_cur = None
    /\ w_locks = <<>>
    /\ ui_pc = "idle"
    /\ last_call = Call("new", -1, "", None, TRUE)
    /\ w_event = "none"
    /\ dups = {}

----------------------------------------------------------------------------
(* PageViewState operations (UI thread) *)

(* update_view_size without the bookkeeping of the call *)
UpdateViewSizeBody(width, height, zm, force) ==
    LET size_changed == view_size[1] # width \/ view_size[2] # height
        zoom_changed == Abs(zoom - zm) > ZoomEps
    IN IF ~size_changed /\ ~zoom_changed /\ ~force
       THEN UNCHANGED <<pages, view_size, zoom, total_width, total_height>>
       ELSE LET l == recalculate_layout(pages, total_width, total_height, orientation,
                                        <<width, height>>, zm, crop)
            IN /\ view_size' = <<width, height>>
               /\ zoom' = zm
               /\ pages' = l.pages
               /\ total_width' = l.total_width
               /\ total_height' = l.total_height

update_view_size(width, height, zm, force) ==
    /\ ui_pc = "idle"
    /\ UpdateViewSizeBody(width, height, zm, force)
    /\ last_call' = Call("other", -1, "", None, TRUE)
    /\ UNCHANGED <<orientation, view_offset, crop, visible_pages, cache>>
    /\ UNCHANGED <<sharedVars, chanVars, workerVars, ui_pc, w_event, dups>>

update_zoom(zm) ==
    /\ ui_pc = "idle"
    /\ UpdateViewSizeBody(view_size[1], view_size[2], zm, TRUE)
    /\ last_call' = Call("other", -1, "", None, TRUE)
    /\ UNCHANGED <<orientation, view_offset, crop, visible_pages, cache>>
    /\ UNCHANGED <<sharedVars, chanVars, workerVars, ui_pc, w_event, dups>>

(* update_offset that also publishes the rectangle to the worker *)
update_offset_publishing(x, y) ==
    /\ ui_pc = "idle"
    /\ view_offset' = <<x, y>>
    /\ visible_rect' = ComputeVisibleRect(orientation, <<x, y>>, view_size)
    /\ last_call' = Call("other", -1, "", None, TRUE)
    /\ UNCHANGED <<pages, orientation, zoom, crop, total_width, total_height, view_size,
                   visible_pages, cache>>
    /\ UNCHANGED <<page_bounds_map, chanVars, workerVars, ui_pc, w_event, dups>>

update_offset(x, y) ==
    /\ ui_pc = "idle"
    /\ view_offset' = <<x, y>>
    /\ last_call' = Call("other", -1, "", None, TRUE)
    /\ UNCHANGED <<pages, orientation, zoom, crop, total_width, total_height, view_size,
                   visible_pages, cache>>
    /\ UNCHANGED <<sharedVars, chanVars, workerVars, ui_pc, w_event, dups>>

(* jump_to_page that aligns the trailing edge of the page *)
jump_to_page_trailing(page_index) ==
    /\ ui_pc = "idle"
    /\ IF page_index >= Len(pages)
       THEN /\ last_call' = Call("jump_to_page", page_index, "", None, TRUE)
            /\ UNCHANGED view_offset
       ELSE LET page == pages[page_index + 1]
                new_offset == IF orientation = "Vertical"
                              THEN <<view_offset[1], -page.bounds.bottom>>
                              ELSE <<-page.bounds.right, view_offset[2]>>
            IN /\ view_offset' = new_offset
               /\ last_call' = Call("jump_to_page", page_index, "", Some(new_offset), TRUE)
    /\ UNCHANGED <<pages, orientation, zoom, crop, total_width, total_height, view_size,
                   visible_pages, cache>>
    /\ UNCHANGED <<sharedVars, chanVars, workerVars, ui_pc, w_event, dups>>

(* jump_to_page that scrolls back to the origin on an index out of range *)
jump_to_page_rewinding(page_index) ==
    /\ ui_pc = "idle"
    /\ IF page_index >= Len(pages)
       THEN /\ last_call' = Call("jump_to_page", page_index, "", None, TRUE)
            /\ view_offset' = <<0, 0>>
       ELSE LET page == pages[page_index + 1]
                new_offset == IF orientation = "Vertical"
                              THEN <<view_offset[1], -page.bounds.top>>
                              ELSE <<-page.bounds.left, view_offset[2]>>
            IN /\ view_offset' = new_offset
               /\ last_call' = Call("jump_to_page", page_index, "", Some(new_offset), TRUE)
    /\ UNCHANGED <<pages, orientation, zoom, crop, total_width, total_height, view_size,
                   visible_pages, cache>>
    /\ UNCHANGED <<sharedVars, chanVars, workerVars, ui_pc, w_event, dups>>

jump_to_page(page_index) ==
    /\ ui_pc = "idle"
    /\ IF page_index >= Len(pages)
       THEN /\ last_call' = Call("jump_to_page", page_index, "", None, TRUE)
            /\ UNCHANGED view_offset
       ELSE LET page == pages[page_index + 1]
                new_offset == IF orientation = "Vertical"
                              THEN <<view_offset[1], -page.bounds.top>>
                              ELSE <<-page.bounds.left, view_offset[2]>>
            IN /\ view_offset' = new_offset
               /\ last_call' = Call("jump_to_page", page_index, "", Some(new_offset), TRUE)
    /\ UNCHANGED <<pages, orientation, zoom, crop, total_width, total_height, view_size,
                   visible_pages, cache>>
    /\ UNCHANGED <<sharedVars, chanVars, workerVars, ui_pc, w_event, dups>>

get_first_visible_page(vis) == IF vis = <<>> THEN None ELSE Some(Head(vis))

(* update_visible_pages, first part: clear the range, compute the expanded
   rectangle and store it in the shared snapshot (its lock is released before
   the bounds map is locked). *)
UvpWriteRect(off, vsize) ==
    /\ visible_pages' = <<>>
    /\ visible_rect' = ComputeVisibleRect(orientation, off, vsize)

(* the loop of update_visible_pages without the cache lookup *)
RECURSIVE UvpLoopNoCache(_, _, _, _, _, _)
UvpLoopNoCache(ps, i, last, vis, ch, reqs) ==
    IF i > last THEN [visible_pages |-> vis, cache |-> ch, render_pages |-> reqs]
    ELSE LET page == ps[i + 1]
             key == generate_thumbnail_key(page)
         IN IF page.width > 0 /\ page.height > 0
            THEN UvpLoopNoCache(ps, i + 1, last, Append(vis, i), ch,
                                Append(reqs, RenderPage(key, page.info, crop)))
            ELSE UvpLoopNoCache(ps, i + 1, last, Append(vis, i), ch, reqs)

(* the loop of update_visible_pages pushing each index in front of the others *)
RECURSIVE UvpLoopDescending(_, _, _, _, _, _)
UvpLoopDescending(ps, i, last, vis, ch, reqs) ==
    IF i > last THEN [visible_pages |-> vis, cache |-> ch, render_pages |-> reqs]
    ELSE LET page == ps[i + 1]
             key == generate_thumbnail_key(page)
         IN IF page.width > 0 /\ page.height > 0
            THEN IF ~has_thumbnail(ch, key)
                 THEN UvpLoopDescending(ps, i + 1, last, <<i>> \o vis, ch,
                                        Append(reqs, RenderPage(key, page.info, crop)))
                 ELSE UvpLoopDescending(ps, i + 1, last, <<i>> \o vis,
                                        get_thumbnail(ch, key), reqs)
            ELSE UvpLoopDescending(ps, i + 1, last, <<i>> \o vis, ch, reqs)

RECURSIVE UvpLoop(_, _, _, _, _, _)
UvpLoop(ps, i, last, vis, ch, reqs) ==
    IF i > last THEN [visible_pages |-> vis, cache |-> ch, render_pages |-> reqs]
    ELSE LET page == ps[i + 1]
             key == generate_thumbnail_key(page)
         IN IF page.width > 0 /\ page.height > 0
            THEN IF ~has_thumbnail(ch, key)
                 THEN UvpLoop(ps, i + 1, last, Append(vis, i), ch,
                              Append(reqs, RenderPage(key, page.info, crop)))
                 ELSE UvpLoop(ps, i + 1, last, Append(vis, i), get_thumbnail(ch, key), reqs)
            ELSE UvpLoop(ps, i + 1, last, Append(vis, i), ch, reqs)

(* the visible range and the batch of update_visible_pages *)
UvpResolve(ps, ori, rc, ch) ==
    LET first == find_first_visible(ps, ori, rc)
        last == find_last_visible(ps, ori, rc)
    IN IF first <= last /\ first < Len(ps)
       THEN UvpLoop(ps, first, Min(last, Len(ps) - 1), <<>>, ch, <<>>)
       ELSE [visible_pages |-> <<>>, cache |-> ch, render_pages |-> <<>>]

(* DecodeService::render_pages *)
render_pages(reqs) ==
    IF reqs # <<>> THEN task_chan' = Append(task_chan, RenderPagesTask(reqs))
    ELSE UNCHANGED task_chan

update_visible_pages_begin ==
    /\ ui_pc = "idle"
    /\ Len(task_chan) < MaxChan
    /\ UvpWriteRect(view_offset, view_size)
    /\ ui_pc' = "uvp_bounds"
    /\ UNCHANGED <<pages, orientation, view_offset, zoom, crop, total_width, total_height,
                   view_size, cache>>
    /\ UNCHANGED <<page_bounds_map, chanVars, workerVars, last_call, w_event, dups>>

(* second part that waits for the decode in progress *)
update_visible_pages_end_waiting ==
    /\ ui_pc = "uvp_bounds"
    /\ w_pc # "decoding"
    /\ page_bounds_map' = [idx \in {pages[i].info.index : i \in 1..Len(pages)} |->
                              (CHOOSE p \in {pages[i] : i \in 1..Len(pages)} :
                                   p.info.index = idx).bounds]
    /\ LET r == UvpResolve(pages, orientation, visible_rect, cache)
       IN /\ visible_pages' = r.visible_pages
          /\ cache' = r.cache
          /\ render_pages(r.render_pages)
    /\ ui_pc' = "idle"
    /\ last_call' = IF last_call.op = "jump_to_page"
                    THEN [last_call EXCEPT !.op = "update_visible_pages"]
                    ELSE Call("update_visible_pages", -1, "", None, TRUE)
    /\ UNCHANGED <<pages, orientation, view_offset, zoom, crop, total_width, total_height,
                   view_size>>
    /\ UNCHANGED <<visible_rect, result_chan, resp_chan, workerVars, w_event, dups>>

(* second part: rebuild the bounds map, resolve the range, dispatch the batch *)
update_visible_pages_end ==
    /\ ui_pc = "uvp_bounds"
    /\ page_bounds_map' = [idx \in {pages[i].info.index : i \in 1..Len(pages)} |->
                              (CHOOSE p \in {pages[i] : i \in 1..Len(pages)} :
                                   p.info.index = idx).bounds]
    /\ LET r == UvpResolve(pages, orientation, visible_rect, cache)
       IN /\ visible_pages' = r.visible_pages
          /\ cache' = r.cache
          /\ render_pages(r.render_pages)
    /\ ui_pc' = "idle"
    /\ last_call' = IF last_call.op = "jump_to_page"
                    THEN [last_call EXCEPT !.op = "update_visible_pages"]
                    ELSE Call("update_visible_pages", -1, "", None, TRUE)
    /\ UNCHANGED <<pages, orientation, view_offset, zoom, crop, total_width, total_height,
                   view_size>>
    /\ UNCHANGED <<visible_rect, result_chan, resp_chan, workerVars, w_event, dups>>

(* set_crop: relayout, then update_visible_pages *)
set_crop(crp) ==
    /\ ui_pc = "idle"
    /\ Len(task_chan) < MaxChan
    /\ IF crop # crp
       THEN LET l == recalculate_layout(pages, total_width, total_height, orientation,
                                        view_size, zoom, crp)
            IN /\ crop' = crp
               /\ pages' = l.pages
               /\ total_width' = l.total_width
               /\ total_height' = l.total_height
               /\ UvpWriteRect(view_offset, view_size)
               /\ ui_pc' = "uvp_bounds"
       ELSE UNCHANGED <<crop, pages, total_width, total_height, visible_pages,
                        visible_rect, ui_pc>>
    /\ last_call' = Call("other", -1, "", None, TRUE)
    /\ UNCHANGED <<orientation, view_offset, zoom, view_size, cache>>
    /\ UNCHANGED <<page_bounds_map, chanVars, workerVars, w_event, dups>>

(* open_document that skips reset() *)
open_document_keeping_pages(path) ==
    /\ ui_pc = "idle"
    /\ Len(task_chan) < MaxChan
    /\ task_chan' = Append(task_chan, LoadDocumentTask(path))
    /\ ui_pc' = "load_wait"
    /\ last_call' = Call("open_document", -1, path, None, FALSE)
    /\ UNCHANGED uiVars
    /\ UNCHANGED <<sharedVars, result_chan, resp_chan, workerVars, w_event, dups>>

(* open_document: reset(), then load_pdf blocks on the one-shot response *)
open_document(path) ==
    /\ ui_pc = "idle"
    /\ Len(task_chan) < MaxChan
    /\ pages' = <<>>
    /\ total_width' = 0
    /\ total_height' = 0
    /\ visible_pages' = <<>>
    /\ cache' = PageCacheClear(cache)
    /\ task_chan' = Append(task_chan, LoadDocumentTask(path))
    /\ ui_pc' = "load_wait"
    /\ last_call' = Call("open_document", -1, path, None, FALSE)
    /\ UNCHANGED <<orientation, view_offset, zoom, crop, view_size>>
    /\ UNCHANGED <<sharedVars, result_chan, resp_chan, workerVars, w_event, dups>>

open_document_return ==
    /\ ui_pc = "load_wait"
    /\ resp_chan # <<>>
    /\ resp_chan' = Tail(resp_chan)
    /\ ui_pc' = "idle"
    /\ last_call' = [last_call EXCEPT !.ok = (Head(resp_chan) # None)]
    /\ UNCHANGED <<uiVars, sharedVars, task_chan, result_chan, workerVars, w_event, dups>>

(* set_pages_from_info with the page list of the document just opened;
   get_outline blocks on the one-shot response *)
set_pages_from_info ==
    /\ ui_pc = "idle"
    /\ Len(task_chan) < MaxChan
    /\ last_call.op = "open_document" /\ last_call.ok
    /\ LET pages_info == PdfDecoderOpen(last_call.path)[1]
       IN pages' = [i \in 1..Len(pages_info) |-> PageNew(pages_info[i], 0, 0, 0, 0)]
    /\ task_chan' = Append(task_chan, GetOutlineTask)
    /\ ui_pc' = "outline_wait"
    /\ last_call' = Call("other", -1, "", None, TRUE)
    /\ UNCHANGED <<orientation, view_offset, zoom, crop, total_width, total_height,
                   view_size, visible_pages, cache>>
    /\ UNCHANGED <<sharedVars, result_chan, resp_chan, workerVars, w_event, dups>>

set_pages_from_info_return ==
    /\ ui_pc = "outline_wait"
    /\ resp_chan # <<>>
    /\ resp_chan' = Tail(resp_chan)
    /\ ui_pc' = "idle"
    /\ UNCHANGED <<uiVars, sharedVars, task_chan, result_chan, workerVars, last_call,
                   w_event, dups>>

reset ==
    /\ ui_pc = "idle"
    /\ pages' = <<>>
    /\ total_width' = 0
    /\ total_height' = 0
    /\ visible_pages' = <<>>
    /\ cache' = PageCacheClear(cache)
    /\ last_call' = Call("reset", -1, "", None, TRUE)
    /\ UNCHANGED <<orientation, view_offset, zoom, crop, view_size>>
    /\ UNCHANGED <<sharedVars, chanVars, workerVars, ui_pc, w_event, dups>>

(* PageViewState::shutdown: the totals stay, the worker is not signalled *)
shutdown ==
    /\ ui_pc = "idle"
    /\ pages' = <<>>
    /\ visible_pages' = <<>>
    /\ cache' = PageCacheClear(cache)
    /\ last_call' = Call("shutdown", -1, "", None, TRUE)
    /\ UNCHANGED <<orientation, view_offset, zoom, crop, total_width, total_height,
                   view_size>>
    /\ UNCHANGED <<sharedVars, chanVars, workerVars, ui_pc, w_event, dups>>

(* the result-draining tick: try_recv_result until empty, put_thumbnail each *)
RECURSIVE DrainLoop(_, _)
DrainLoop(rs, ch) ==
    IF rs = <<>> THEN ch ELSE DrainLoop(Tail(rs), put_thumbnail(ch, Head(rs).key))

drain_results ==
    /\ ui_pc = "idle"
    /\ result_chan # <<>>
    /\ cache' = DrainLoop(result_chan, cache)
    /\ result_chan' = <<>>
    /\ last_call' = Call("other", -1, "", None, TRUE)
    /\ UNCHANGED <<pages, orientation, view_offset, zoom, crop, total_width, total_height,
                   view_size, visible_pages>>
    /\ UNCHANGED <<sharedVars, task_chan, resp_chan, workerVars, ui_pc, w_event, dups>>

(* a caller hands a batch to DecodeService::render_pages, one batch in flight *)
dispatch(reqs) ==
    /\ ui_pc = "idle"
    /\ task_chan = <<>>
    /\ render_pages(reqs)
    /\ last_call' = Call("render_pages", -1, "", None, TRUE)
    /\ UNCHANGED <<uiVars, sharedVars, result_chan, resp_chan, workerVars, ui_pc, w_event, dups>>

(* DecodeService::try_recv_result when a result is pending *)
try_recv_result ==
    /\ ui_pc = "idle"
    /\ result_chan # <<>>
    /\ result_chan' = Tail(result_chan)
    /\ last_call' = Call("try_recv_result", -1, "", None, TRUE)
    /\ UNCHANGED <<uiVars, sharedVars, task_chan, resp_chan, workerVars, ui_pc, w_event, dups>>

(* Drop for DecodeService: destroy() sends Shutdown, then the worker thread is
   joined *)
destroy ==
    /\ ui_pc = "idle"
    /\ task_chan' = Append(task_chan, ShutdownTask)
    /\ ui_pc' = "join_wait"
    /\ last_call' = Call("destroy", -1, "", None, TRUE)
    /\ UNCHANGED <<uiVars, sharedVars, result_chan, resp_chan, workerVars, w_event, dups>>

drop_join ==
    /\ ui_pc = "join_wait"
    /\ w_pc = "exit"
    /\ ui_pc' = "dropped"
    /\ UNCHANGED <<uiVars, sharedVars, chanVars, workerVars, last_call, w_event, dups>>

----------------------------------------------------------------------------
(* Decode worker *)

(* RenderPages that de-duplicates by the PartialEq of RenderPage *)
RECURSIVE EnqueueLoopByEq(_, _)
EnqueueLoopByEq(q, reqs) ==
    IF reqs = <<>> THEN q
    ELSE LET page == Head(reqs)
             already_queued == \E i \in 1..Len(q) : RenderPageEq(q[i], page)
         IN IF ~already_queued THEN EnqueueLoopByEq(Append(q, page), Tail(reqs))
            ELSE EnqueueLoopByEq(q, Tail(reqs))

(* RenderPages that puts Thumbnail requests at the front of the queue *)
RECURSIVE EnqueueLoopByPriority(_, _)
EnqueueLoopByPriority(q, reqs) ==
    IF reqs = <<>> THEN q
    ELSE LET page == Head(reqs)
             already_queued == \E i \in 1..Len(q) : q[i].key = page.key
         IN IF already_queued THEN EnqueueLoopByPriority(q, Tail(reqs))
            ELSE IF page.priority = "Thumbnail"
            THEN EnqueueLoopByPriority(<<page>> \o q, Tail(reqs))
            ELSE EnqueueLoopByPriority(Append(q, page), Tail(reqs))

(* RenderPages that appends the whole batch *)
EnqueueLoopNoDedup(q, reqs) == q \o reqs

(* RenderPages: append the requests whose key is not queued yet *)
RECURSIVE EnqueueLoop(_, _)
EnqueueLoop(q, reqs) ==
    IF reqs = <<>> THEN q
    ELSE LET page == Head(reqs)
             already_queued == \E i \in 1..Len(q) : q[i].key = page.key
         IN IF ~already_queued THEN EnqueueLoop(Append(q, page), Tail(reqs))
            ELSE EnqueueLoop(q, Tail(reqs))

BatchKeys(task) == {task.pages[i].key : i \in 1..Len(task.pages)}

(* handle_task whose loop goes on after Shutdown *)
handle_task_ignoring_shutdown(task, next_pc) ==
    /\ task_chan' = Tail(task_chan)
    /\ IF task.type = "LoadDocument"
       THEN /\ decoder' = IF PdfDecoderOpen(task.path) # None
                          THEN PdfDecoderOpen(task.path) ELSE decoder
            /\ resp_chan' = Append(resp_chan, PdfDecoderOpen(task.path))
            /\ w_pc' = next_pc
            /\ UNCHANGED <<task_queue, current_visible, dups>>
       ELSE IF task.type = "RenderPages"
       THEN /\ current_visible' = {task.pages[i] : i \in 1..Len(task.pages)}
            /\ task_queue' = EnqueueLoop(task_queue, task.pages)
            /\ dups' = dups \cup (BatchKeys(task) \cap QueuedKeys(task_queue))
            /\ w_pc' = next_pc
            /\ UNCHANGED <<decoder, resp_chan>>
       ELSE IF task.type = "GetOutline"
       THEN /\ resp_chan' = Append(resp_chan, Some("outline"))
            /\ w_pc' = next_pc
            /\ UNCHANGED <<decoder, task_queue, current_visible, dups>>
       ELSE /\ w_pc' = next_pc
            /\ UNCHANGED <<decoder, resp_chan, task_queue, current_visible, dups>>

(* handle_task; next_pc is where the loop continues unless Shutdown was received *)
(* a loop that a failed load ends *)
handle_task_fatal_load(task, next_pc) ==
    /\ task_chan' = Tail(task_chan)
    /\ IF task.type = "LoadDocument"
       THEN /\ decoder' = IF PdfDecoderOpen(task.path) # None
                          THEN PdfDecoderOpen(task.path) ELSE decoder
            /\ resp_chan' = Append(resp_chan, PdfDecoderOpen(task.path))
            /\ w_pc' = IF PdfDecoderOpen(task.path) # None THEN next_pc ELSE "exit"
            /\ UNCHANGED <<task_queue, current_visible, dups>>
       ELSE IF task.type = "RenderPages"
       THEN /\ current_visible' = {task.pages[i] : i \in 1..Len(task.pages)}
            /\ task_queue' = EnqueueLoop(task_queue, task.pages)
            /\ dups' = dups \cup (BatchKeys(task) \cap QueuedKeys(task_queue))
            /\ w_pc' = next_pc
            /\ UNCHANGED <<decoder, resp_chan>>
       ELSE IF task.type = "GetOutline"
       THEN /\ resp_chan' = Append(resp_chan, Some("outline"))
            /\ w_pc' = next_pc
            /\ UNCHANGED <<decoder, task_queue, current_visible, dups>>
       ELSE /\ w_pc' = "exit"
            /\ UNCHANGED <<decoder, resp_chan, task_queue, current_visible, dups>>

handle_task(task, next_pc) ==
    /\ task_chan' = Tail(task_chan)
    /\ IF task.type = "LoadDocument"
       THEN /\ decoder' = IF PdfDecoderOpen(task.path) # None
                          THEN PdfDecoderOpen(task.path) ELSE decoder
            /\ resp_chan' = Append(resp_chan, PdfDecoderOpen(task.path))
            /\ w_pc' = next_pc
            /\ UNCHANGED <<task_queue, current_visible, dups>>
       ELSE IF task.type = "RenderPages"
       THEN /\ current_visible' = {task.pages[i] : i \in 1..Len(task.pages)}
            /\ task_queue' = EnqueueLoop(task_queue, task.pages)
            /\ dups' = dups \cup (BatchKeys(task) \cap QueuedKeys(task_queue))
            /\ w_pc' = next_pc
            /\ UNCHANGED <<decoder, resp_chan>>
       ELSE IF task.type = "GetOutline"
       THEN /\ resp_chan' = Append(resp_chan, Some("outline"))
            /\ w_pc' = next_pc
            /\ UNCHANGED <<decoder, task_queue, current_visible, dups>>
       ELSE /\ w_pc' = "exit"
            /\ UNCHANGED <<decoder, resp_chan, task_queue, current_visible, dups>>

(* step 1: try_recv while tasks are pending *)
worker_try_recv ==
    /\ w_pc = "try_recv"
    /\ task_chan # <<>>
    /\ handle_task(Head(task_chan), "try_recv")
    /\ w_event' = "none"
    /\ UNCHANGED <<uiVars, sharedVars, result_chan, w_cur, w_locks, ui_pc, last_call>>

(* try_recv reporting Empty although tasks are pending *)
worker_try_recv_leaving_tasks ==
    /\ w_pc = "try_recv"
    /\ w_pc' = "pop"
    /\ w_event' = "none"
    /\ UNCHANGED <<uiVars, sharedVars, chanVars, decoder, task_queue, current_visible,
                   w_cur, w_locks, ui_pc, last_call, dups>>

worker_try_recv_empty ==
    /\ w_pc = "try_recv"
    /\ task_chan = <<>>
    /\ w_pc' = "pop"
    /\ w_event' = "none"
    /\ UNCHANGED <<uiVars, sharedVars, chanVars, decoder, task_queue, current_visible,
                   w_cur, w_locks, ui_pc, last_call, dups>>

(* step 2: pop_front, re-validate visibility, start the decode *)
worker_pop ==
    /\ w_pc = "pop"
    /\ IF task_queue = <<>>
       THEN /\ w_pc' = "recv"
            /\ w_event' = "none"
            /\ UNCHANGED <<task_queue, w_cur, dups>>
       ELSE LET render_page == Head(task_queue)
                is_visible ==
                    IF render_page.visibility_checker
                    THEN visibility_checker(render_page.page_info.index, orientation,
                                            visible_rect, page_bounds_map)
                    ELSE \E r \in current_visible : RenderPageEq(r, render_page)
            IN /\ task_queue' = Tail(task_queue)
               /\ dups' = dups \ {render_page.key}
               /\ IF ~is_visible
                  THEN /\ w_pc' = "try_recv"
                       /\ w_event' = "skipped"
                       /\ UNCHANGED w_cur
                  ELSE IF decoder = None
                  THEN /\ w_pc' = "try_recv"
                       /\ w_event' = "no_decoder"
                       /\ UNCHANGED w_cur
                  ELSE /\ w_pc' = "decoding"
                       /\ w_cur' = Some(render_page)
                       /\ w_event' = "decoding"
    /\ UNCHANGED <<uiVars, sharedVars, chanVars, decoder, current_visible, w_locks, ui_pc,
                   last_call>>

(* step 2 in detail, for a request with a visibility callback: pop_front, then
   the callback locks the rectangle, locks the bounds map, reads both and
   drops both guards when it returns *)
LockFree(l) == \A i \in 1..Len(w_locks) : w_locks[i] # l

worker_pop_front ==
    /\ w_pc = "pop"
    /\ task_queue # <<>>
    /\ Head(task_queue).visibility_checker
    /\ task_queue' = Tail(task_queue)
    /\ dups' = dups \ {Head(task_queue).key}
    /\ w_cur' = Some(Head(task_queue))
    /\ w_pc' = "lock_rect"
    /\ w_event' = "none"
    /\ UNCHANGED <<uiVars, sharedVars, chanVars, decoder, current_visible, w_locks, ui_pc,
                   last_call>>

worker_lock_rect ==
    /\ w_pc = "lock_rect"
    /\ LockFree("visible_rect")
    /\ w_locks' = Append(w_locks, "visible_rect")
    /\ w_pc' = "lock_map"
    /\ UNCHANGED <<uiVars, sharedVars, chanVars, decoder, task_queue, current_visible,
                   w_cur, ui_pc, last_call, w_event, dups>>

worker_lock_map ==
    /\ w_pc = "lock_map"
    /\ LockFree("page_bounds_map")
    /\ w_locks' = Append(w_locks, "page_bounds_map")
    /\ w_pc' = "checking"
    /\ UNCHANGED <<uiVars, sharedVars, chanVars, decoder, task_queue, current_visible,
                   w_cur, ui_pc, last_call, w_event, dups>>

(* a callback whose guards outlive it *)
worker_check_holding ==
    /\ w_pc = "checking"
    /\ UNCHANGED w_locks
    /\ IF ~visibility_checker(w_cur[1].page_info.index, orientation, visible_rect,
                              page_bounds_map)
       THEN /\ w_pc' = "try_recv"
            /\ w_event' = "skipped"
            /\ w_cur' = None
       ELSE IF decoder = None
       THEN /\ w_pc' = "try_recv"
            /\ w_event' = "no_decoder"
            /\ w_cur' = None
       ELSE /\ w_pc' = "decoding"
            /\ w_event' = "decoding"
            /\ UNCHANGED w_cur
    /\ UNCHANGED <<uiVars, sharedVars, chanVars, decoder, task_queue, current_visible,
                   ui_pc, last_call, dups>>

(* a callback bound to the answer of the moment the request was created *)
worker_check_static ==
    /\ w_pc = "checking"
    /\ w_locks' = <<>>
    /\ IF decoder = None
       THEN /\ w_pc' = "try_recv"
            /\ w_event' = "no_decoder"
            /\ w_cur' = None
       ELSE /\ w_pc' = "decoding"
            /\ w_event' = "decoding"
            /\ UNCHANGED w_cur
    /\ UNCHANGED <<uiVars, sharedVars, chanVars, decoder, task_queue, current_visible,
                   ui_pc, last_call, dups>>

worker_check ==
    /\ w_pc = "checking"
    /\ w_locks' = <<>>
    /\ IF ~visibility_checker(w_cur[1].page_info.index, orientation, visible_rect,
                              page_bounds_map)
       THEN /\ w_pc' = "try_recv"
            /\ w_event' = "skipped"
            /\ w_cur' = None
       ELSE IF decoder = None
       THEN /\ w_pc' = "try_recv"
            /\ w_event' = "no_decoder"
            /\ w_cur' = None
       ELSE /\ w_pc' = "decoding"
            /\ w_event' = "decoding"
            /\ UNCHANGED w_cur
    /\ UNCHANGED <<uiVars, sharedVars, chanVars, decoder, task_queue, current_visible,
                   ui_pc, last_call, dups>>

(* a decode whose failure ends the loop *)
worker_decode_done_stopping(ok) ==
    /\ w_pc = "decoding"
    /\ IF ok
       THEN /\ Len(result_chan) < MaxResults
            /\ result_chan' = Append(result_chan, DecodeResult(w_cur[1]))
            /\ w_event' = "completed"
       ELSE /\ UNCHANGED result_chan
            /\ w_event' = "failed"
    /\ w_cur' = None
    /\ w_pc' = IF ok THEN "try_recv" ELSE "exit"
    /\ UNCHANGED <<uiVars, sharedVars, task_chan, resp_chan, decoder, task_queue,
                   current_visible, w_locks, ui_pc, last_call, dups>>

(* a decode that sends a result whether it succeeded or not *)
worker_decode_done_always_emitting(ok) ==
    /\ w_pc = "decoding"
    /\ IF ok
       THEN /\ Len(result_chan) < MaxResults
            /\ result_chan' = Append(result_chan, DecodeResult(w_cur[1]))
            /\ w_event' = "completed"
       ELSE /\ Len(result_chan) < MaxResults
            /\ result_chan' = Append(result_chan, DecodeResult(w_cur[1]))
            /\ w_event' = "failed"
    /\ w_cur' = None
    /\ w_pc' = "try_recv"
    /\ UNCHANGED <<uiVars, sharedVars, task_chan, resp_chan, decoder, task_queue,
                   current_visible, w_locks, ui_pc, last_call, dups>>

(* a decode that looks at the snapshot again before it sends its result *)
worker_decode_done_rechecking(ok) ==
    /\ w_pc = "decoding"
    /\ IF ok /\ visibility_checker(w_cur[1].page_info.index, orientation, visible_rect,
                                    page_bounds_map)
       THEN /\ Len(result_chan) < MaxResults
            /\ result_chan' = Append(result_chan, DecodeResult(w_cur[1]))
            /\ w_event' = "completed"
       ELSE /\ UNCHANGED result_chan
            /\ w_event' = IF ok THEN "skipped" ELSE "failed"
    /\ w_cur' = None
    /\ w_pc' = "try_recv"
    /\ UNCHANGED <<uiVars, sharedVars, task_chan, resp_chan, decoder, task_queue,
                   current_visible, w_locks, ui_pc, last_call, dups>>

(* render_page returns: Ok sends the DecodeResult, Err is logged and dropped *)
worker_decode_done(ok) ==
    /\ w_pc = "decoding"
    /\ IF ok
       THEN /\ Len(result_chan) < MaxResults
            /\ result_chan' = Append(result_chan, DecodeResult(w_cur[1]))
            /\ w_event' = "completed"
       ELSE /\ UNCHANGED result_chan
            /\ w_event' = "failed"
    /\ w_cur' = None
    /\ w_pc' = "try_recv"
    /\ UNCHANGED <<uiVars, sharedVars, task_chan, resp_chan, decoder, task_queue,
                   current_visible, w_locks, ui_pc, last_call, dups>>

(* a second receiver that handles tasks while a decode is in progress *)
worker_recv_while_decoding ==
    /\ w_pc \in {"recv", "decoding"}
    /\ task_chan # <<>>
    /\ handle_task(Head(task_chan), w_pc)
    /\ w_event' = "none"
    /\ UNCHANGED <<uiVars, sharedVars, result_chan, w_cur, w_locks, ui_pc, last_call>>

(* step 3: the queue is empty, block on recv *)
worker_recv ==
    /\ w_pc = "recv"
    /\ task_chan # <<>>
    /\ handle_task(Head(task_chan), "try_recv")
    /\ w_event' = "none"
    /\ UNCHANGED <<uiVars, sharedVars, result_chan, w_cur, w_locks, ui_pc, last_call>>

----------------------------------------------------------------------------
WorkerNext ==
    \/ worker_try_recv
    \/ worker_try_recv_empty
    \/ worker_pop
    \/ \E ok \in BOOLEAN : worker_decode_done(ok)
    \/ worker_recv

(* Spec: every interleaving of the UI thread and the worker while a document
   is opened, laid out once, scrolled, and its results are drained. *)
Next ==
    \/ \E path \in Paths : pages = <<>> /\ open_document(path)
    \/ open_document_return
    \/ set_pages_from_info
    \/ set_pages_from_info_return
    \/ \E vs \in SchedViewSizes, zm \in SchedZooms : update_view_size(vs[1], vs[2], zm, TRUE)
    \/ \E off \in SchedOffsets : update_offset(off[1], off[2])
    \/ update_visible_pages_begin
    \/ update_visible_pages_end
    \/ drain_results
    \/ WorkerNext

Spec == Init /\ [][Next]_vars

(* SpecView: the UI thread's calls over the full input sets. The worker runs
   until it has nothing left to do before the UI thread makes its next step,
   and update_visible_pages is the last call of a behaviour. *)
WorkerQuiescent == w_pc \in {"try_recv", "recv"} /\ task_chan = <<>> /\ task_queue = <<>>
BeforeResolve == last_call.op # "update_visible_pages"

ViewNext ==
    \/ open_document(GoodPath)
    \/ open_document_return
    \/ set_pages_from_info
    \/ set_pages_from_info_return
    \/ \E vs \in ViewSizeInputs, zm \in ZoomInputs, force \in BOOLEAN :
           update_view_size(vs[1], vs[2], zm, force)
    \/ \E zm \in ZoomInputs : update_zoom(zm)
    \/ \E off \in OffsetPairs : update_offset(off[1], off[2])
    \/ \E i \in PageIndexInputs : jump_to_page(i)
    \/ \E c \in CropInputs : set_crop(c)
    \/ update_visible_pages_begin
    \/ update_visible_pages_end

NextView ==
    \/ WorkerQuiescent /\ BeforeResolve /\ ViewNext
    \/ WorkerNext

SpecView == Init /\ [][NextView]_vars

(* SpecDown: a document is opened, laid out and rendered, and at any moment
   the service is dropped. The worker thread is scheduled fairly: a step it
   can take (receiving a task, popping a request, a decoder call returning) is
   eventually taken. *)
DownNext ==
    \/ pages = <<>> /\ open_document(GoodPath)
    \/ open_document_return
    \/ set_pages_from_info
    \/ set_pages_from_info_return
    \/ \E vs \in SchedViewSizes, zm \in SchedZooms : update_view_size(vs[1], vs[2], zm, TRUE)
    \/ update_visible_pages_begin
    \/ update_visible_pages_end
    \/ drain_results
    \/ destroy
    \/ drop_join

NextDown ==
    \/ DownNext
    \/ WorkerNext

SpecDown == Init /\ [][NextDown]_vars /\ WF_vars(WorkerNext)

(* SpecQueue: the decode service fed directly with batches of requests of
   different priorities, once a document is open. *)
QueueNext ==
    \/ decoder = None /\ open_document(GoodPath)
    \/ open_document_return
    \/ \E reqs \in DirectBatches : dispatch(reqs)
    \/ try_recv_result

NextQueue ==
    \/ QueueNext
    \/ WorkerNext

SpecQueue == Init /\ [][NextQueue]_vars

(* SpecDedup: the decode service fed with single requests that repeat a key
   under a different crop flag. *)
DedupNext ==
    \/ decoder = None /\ open_document(GoodPath)
    \/ open_document_return
    \/ \E reqs \in VariantBatches : dispatch(reqs)
    \/ try_recv_result

NextDedup ==
    \/ DedupNext
    \/ WorkerNext

SpecDedup == Init /\ [][NextDedup]_vars

(* SpecSnap: the viewport is resized between update_visible_pages calls while
   the worker pops the requests of earlier calls. *)
SnapNext ==
    \/ pages = <<>> /\ open_document(GoodPath)
    \/ open_document_return
    \/ set_pages_from_info
    \/ set_pages_from_info_return
    \/ \E vs \in SnapViewSizes : update_view_size(vs[1], vs[2], Unit, FALSE)
    \/ update_visible_pages_begin
    \/ update_visible_pages_end
    \/ try_recv_result

NextSnap ==
    \/ SnapNext
    \/ WorkerNext

SpecSnap == Init /\ [][NextSnap]_vars

(* SpecLock: SpecSnap with scrolling instead of resizing and with the locking
   of the visibility callback in separate steps; the UI thread's lock
   sections wait for a lock the worker holds. *)
LockNext ==
    \/ pages = <<>> /\ open_document(GoodPath)
    \/ open_document_return
    \/ set_pages_from_info
    \/ set_pages_from_info_return
    \/ \E vs \in SchedViewSizes, zm \in SchedZooms : update_view_size(vs[1], vs[2], zm, FALSE)
    \/ \E off \in SchedOffsets : update_offset(off[1], off[2])
    \/ LockFree("visible_rect") /\ update_visible_pages_begin
    \/ LockFree("page_bounds_map") /\ update_visible_pages_end
    \/ try_recv_result

LockWorkerNext ==
    \/ worker_try_recv
    \/ worker_try_recv_empty
    \/ task_queue = <<>> /\ worker_pop
    \/ worker_pop_front
    \/ worker_lock_rect
    \/ worker_lock_map
    \/ worker_check
    \/ \E ok \in BOOLEAN : worker_decode_done(ok)
    \/ worker_recv

NextLock ==
    \/ LockNext
    \/ LockWorkerNext

SpecLock == Init /\ [][NextLock]_vars

(* update_visible_pages with its two lock sections as the UI thread runs
   them: lock the rectangle, store it and drop the guard at the end of the
   statement; lock the bounds map, rebuild it and drop the guard at the end
   of the block.  The UI thread holds a mutex in the position after it locked
   it. *)
UiHoldsNested(l) ==
    \/ ui_pc \in {"uvp_rect_locked", "uvp_bounds", "uvp_map_locked"} /\ l = "visible_rect"
    \/ ui_pc = "uvp_map_locked" /\ l = "page_bounds_map"

UiHolds(l) ==
    \/ ui_pc = "uvp_rect_locked" /\ l = "visible_rect"
    \/ ui_pc = "uvp_map_locked" /\ l = "page_bounds_map"

uvp_lock_rect ==
    /\ ui_pc = "idle"
    /\ Len(task_chan) < MaxChan
    /\ LockFree("visible_rect")
    /\ ui_pc' = "uvp_rect_locked"
    /\ UNCHANGED <<uiVars, sharedVars, chanVars, workerVars, last_call, w_event, dups>>

uvp_store_rect ==
    /\ ui_pc = "uvp_rect_locked"
    /\ UvpWriteRect(view_offset, view_size)
    /\ ui_pc' = "uvp_bounds"
    /\ UNCHANGED <<pages, orientation, view_offset, zoom, crop, total_width, total_height,
                   view_size, cache>>
    /\ UNCHANGED <<page_bounds_map, chanVars, workerVars, last_call, w_event, dups>>

uvp_lock_map ==
    /\ ui_pc = "uvp_bounds"
    /\ LockFree("page_bounds_map")
    /\ ui_pc' = "uvp_map_locked"
    /\ UNCHANGED <<uiVars, sharedVars, chanVars, workerVars, last_call, w_event, dups>>

uvp_store_map ==
    /\ ui_pc = "uvp_map_locked"
    /\ page_bounds_map' = [idx \in {pages[i].info.index : i \in 1..Len(pages)} |->
                              (CHOOSE p \in {pages[i] : i \in 1..Len(pages)} :
                                   p.info.index = idx).bounds]
    /\ LET r == UvpResolve(pages, orientation, visible_rect, cache)
       IN /\ visible_pages' = r.visible_pages
          /\ cache' = r.cache
          /\ render_pages(r.render_pages)
    /\ ui_pc' = "idle"
    /\ last_call' = Call("update_visible_pages", -1, "", None, TRUE)
    /\ UNCHANGED <<pages, orientation, view_offset, zoom, crop, total_width, total_height,
                   view_size>>
    /\ UNCHANGED <<visible_rect, result_chan, resp_chan, workerVars, w_event, dups>>

(* SpecMutex: both threads take the two snapshot mutexes step by step; a
   thread that asks for a mutex the other one holds waits *)
UiLockSteps == uvp_store_rect \/ uvp_lock_map \/ uvp_store_map

NextMutex ==
    \/ pages = <<>> /\ open_document(GoodPath)
    \/ open_document_return
    \/ set_pages_from_info
    \/ set_pages_from_info_return
    \/ \E vs \in SchedViewSizes, zm \in SchedZooms : update_view_size(vs[1], vs[2], zm, FALSE)
    \/ uvp_lock_rect
    \/ UiLockSteps
    \/ try_recv_result
    \/ worker_try_recv
    \/ worker_try_recv_empty
    \/ task_queue = <<>> /\ worker_pop
    \/ worker_pop_front
    \/ ~UiHolds("visible_rect") /\ worker_lock_rect
    \/ ~UiHolds("page_bounds_map") /\ worker_lock_map
    \/ worker_check
    \/ \E ok \in BOOLEAN : worker_decode_done(ok)
    \/ worker_recv

SpecMutex ==
    /\ Init /\ [][NextMutex]_vars
    /\ WF_vars(UiLockSteps)
    /\ SF_vars(~UiHolds("visible_rect") /\ worker_lock_rect)
    /\ SF_vars(~UiHolds("page_bounds_map") /\ worker_lock_map)
    /\ WF_vars(worker_check)

(* SpecFatal: a load that may fail, requests sent before any document is
   open, scrolling that makes queued requests stale, decodes that may fail,
   and the drop of the service. *)
FatalNext ==
    \/ \E path \in Paths : pages = <<>> /\ open_document(path)
    \/ open_document_return
    \/ set_pages_from_info
    \/ set_pages_from_info_return
    \/ \E vs \in SchedViewSizes, zm \in SchedZooms : update_view_size(vs[1], vs[2], zm, TRUE)
    \/ view_offset = <<0, 0>> /\ update_offset(-2 * Unit, -2 * Unit)
    \/ task_chan = <<>> /\ update_visible_pages_begin
    \/ update_visible_pages_end
    \/ pages = <<>> /\ dispatch(<<DirectRequest(DocPages[1], "Thumbnail")>>)
    \/ try_recv_result
    \/ destroy
    \/ drop_join

NextFatal ==
    \/ FatalNext
    \/ WorkerNext

SpecFatal == Init /\ [][NextFatal]_vars

(* SpecLife: the life of a view state: documents are opened and reopened, laid
   out, zoomed, cropped, rendered, reset and shut down. The worker runs until
   it has nothing left to do before the UI thread makes its next step. *)
LifeZooms == {Unit, 2 * Unit}

LifeNext ==
    \/ \E path \in Paths : open_document(path)
    \/ open_document_return
    \/ set_pages_from_info
    \/ set_pages_from_info_return
    \/ update_view_size(Unit, Unit, Unit, FALSE)
    \/ \E zm \in LifeZooms : update_zoom(zm)
    \/ \E c \in CropInputs : set_crop(c)
    \/ update_visible_pages_begin
    \/ update_visible_pages_end
    \/ drain_results
    \/ reset
    \/ shutdown

NextLife ==
    \/ WorkerQuiescent /\ LifeNext
    \/ WorkerNext

SpecLife == Init /\ [][NextLife]_vars

----------------------------------------------------------------------------
(* SpecCache: a PageCache of small capacity used on its own: PageCache::new,
   then any sequence of gets, puts and clears of both caches and of removes
   on the page-image cache. *)
InitCache ==
    /\ pages = <<>>
    /\ orientation = "Vertical"
    /\ view_offset = <<0, 0>>
    /\ zoom = Unit
    /\ crop = 0
    /\ total_width = 0
    /\ total_height = 0
    /\ view_size = <<0, 0>>
    /\ visible_pages = <<>>
    /\ cache = PageCacheNew(CacheCap, CacheCap)
    /\ visible_rect = Rect(0, 0, 0, 0)
    /\ page_bounds_map = <<>>
    /\ task_chan = <<>>
    /\ result_chan = <<>>
    /\ resp_chan = <<>>
    /\ decoder = None
    /\ task_queue = <<>>
    /\ current_visible = {}
    /\ w_pc = "try_recv"
    /\ w_cur = None
    /\ w_locks = <<>>
    /\ ui_pc = "idle"
    /\ last_call = Call("new", -1, "", None, TRUE)
    /\ w_event = "none"
    /\ dups = {}

cacheFrame == <<pages, orientation, view_offset, zoom, crop, total_width, total_height,
                view_size, visible_pages, sharedVars, chanVars, workerVars, ui_pc,
                w_event, dups>>

(* the number of entries a put on c removes to make room (cache.rs put, line 41) *)
Evicted(c) == IF Len(c.cache) >= c.max_size /\ c.cache # <<>> THEN 1 ELSE 0

(* a get records in ok whether an image is returned; a put records in ret how
   many entries it evicted *)
CallGetPageImage(page_index, zm) ==
    /\ cache' = get_page_image(cache, page_index, zm)
    /\ last_call' = Call("get_page_image", page_index, "", None,
                         CacheHas(cache.image_cache, PageKey(page_index, zm)))
    /\ UNCHANGED cacheFrame

CallPutPageImage(page_index, zm) ==
    /\ cache' = put_page_image(cache, page_index, zm)
    /\ last_call' = Call("put_page_image", page_index, "", Some(Evicted(cache.image_cache)), TRUE)
    /\ UNCHANGED cacheFrame

CallGetThumbnail(key) ==
    /\ cache' = get_thumbnail(cache, key)
    /\ last_call' = Call("get_thumbnail", key[1], "", None, has_thumbnail(cache, key))
    /\ UNCHANGED cacheFrame

CallPutThumbnail(key) ==
    /\ cache' = put_thumbnail(cache, key)
    /\ last_call' = Call("put_thumbnail", key[1], "", Some(Evicted(cache.thumbnail_cache)), TRUE)
    /\ UNCHANGED cacheFrame

CallClear ==
    /\ cache' = PageCacheClear(cache)
    /\ last_call' = Call("clear", -1, "", None, TRUE)
    /\ UNCHANGED cacheFrame

(* ImageCache::remove on the page-image cache *)
CallRemove(page_index, zm) ==
    /\ cache' = [cache EXCEPT !.image_cache = ImageCacheRemove(@, PageKey(page_index, zm))]
    /\ last_call' = Call("remove", page_index, "", None,
                         CacheHas(cache.image_cache, PageKey(page_index, zm)))
    /\ UNCHANGED cacheFrame

NextCache ==
    \/ \E i \in CachePageInputs, zm \in ZoomInputs : CallRemove(i, zm)
    \/ \E i \in CachePageInputs, zm \in ZoomInputs : CallGetPageImage(i, zm)
    \/ \E i \in CachePageInputs, zm \in ZoomInputs : CallPutPageImage(i, zm)
    \/ \E key \in ThumbKeyInputs : CallGetThumbnail(key)
    \/ \E key \in ThumbKeyInputs : CallPutThumbnail(key)
    \/ CallClear

SpecCache == InitCache /\ [][NextCache]_vars

(* SpecEvict: a view state whose caches hold CacheCap entries. The document
   is opened and laid out once and the viewport never changes afterwards;
   update_visible_pages is called any number of times, every decode succeeds,
   and the worker and the result-draining tick are never starved. *)
EvictNext ==
    \/ pages = <<>> /\ open_document(GoodPath)
    \/ open_document_return
    \/ set_pages_from_info
    \/ set_pages_from_info_return
    \/ view_size = <<0, 0>> /\ update_view_size(Unit, Unit, Unit, TRUE)
    \/ update_visible_pages_begin
    \/ update_visible_pages_end
    \/ drain_results

EvictWorker ==
    \/ worker_try_recv
    \/ worker_try_recv_empty
    \/ worker_pop
    \/ worker_decode_done(TRUE)
    \/ worker_recv

NextEvict ==
    \/ EvictNext
    \/ EvictWorker

SpecEvict ==
    InitCache /\ [][NextEvict]_vars /\ WF_vars(EvictWorker) /\ WF_vars(drain_results)

(* SpecStale: the zoom is changed and the document is closed and opened
   again at any moment, also while requests are queued, a decode is in
   progress or results wait to be drained. *)
StaleNext ==
    \/ pages = <<>> /\ open_document(GoodPath)
    \/ open_document_return
    \/ set_pages_from_info
    \/ set_pages_from_info_return
    \/ \E vs \in SchedViewSizes, zm \in SchedZooms : update_view_size(vs[1], vs[2], zm, TRUE)
    \/ task_chan = <<>> /\ update_visible_pages_begin
    \/ update_visible_pages_end
    \/ \E zm \in LifeZooms : update_zoom(zm)
    \/ pages # <<>> /\ reset
    \/ drain_results

NextStale ==
    \/ StaleNext
    \/ WorkerNext

SpecStale == Init /\ [][NextStale]_vars

(* SpecTile: pages built by Page::new with every pair of sizes *)
CallPageNew(width, height) ==
    /\ pages' = <<PageNew(DocPages[1], width, height, 0, 0)>>
    /\ last_call' = Call("page_new", 0, "", None, TRUE)
    /\ UNCHANGED <<orientation, view_offset, zoom, crop, total_width, total_height,
                   view_size, visible_pages, cache, sharedVars, chanVars, workerVars,
                   ui_pc, w_event, dups>>

NextTile == \E width \in TileLengths, height \in TileLengths : CallPageNew(width, height)

SpecTile == InitCache /\ [][NextTile]_vars

----------------------------------------------------------------------------
(* Properties *)

Range(f) == {f[i] : i \in DOMAIN f}

(* extent of a rectangle along the scroll axis, and strict overlap of two *)
AxisLo(rc) == IF orientation = "Vertical" THEN rc.top ELSE rc.left
AxisHi(rc) == IF orientation = "Vertical" THEN rc.bottom ELSE rc.right
Overlaps(a, b) == AxisLo(a) < AxisHi(b) /\ AxisLo(b) < AxisHi(a)

(* the page of a request lies in the published rectangle, by the published bounds *)
InSnapshot(req) ==
    /\ req.page_info.index \in DOMAIN page_bounds_map
    /\ Overlaps(page_bounds_map[req.page_info.index], visible_rect)

(* the worker takes its pop step with a request in the queue *)
PopsRequest == w_pc = "pop" /\ task_queue # <<>> /\ w_pc' # w_pc

(* C1 as stated: when a second batch carrying key k is handled while the
   first request for k is still queued, render_page is executed exactly once
   for k: the pop of the merged request always starts its decode. *)
C1_ExecutedExactlyOnce ==
    [][(PopsRequest /\ Head(task_queue).key \in dups) => w_pc' = "decoding"]_vars

(* C1 amended: a key whose second request arrived while the first was queued
   has exactly one queue entry; popping it removes the key from the queue,
   emits nothing by itself, and starts the one decode exactly when the page
   is still in the published rectangle; a decode emits at most one result,
   carrying the key of the request being decoded. *)
C1_MergedAtMostOnce ==
    [][/\ \A k \in dups' : CountKey(task_queue', k) = 1
       /\ (PopsRequest /\ Head(task_queue).key \in dups)
            => /\ Head(task_queue).key \notin QueuedKeys(task_queue')
               /\ result_chan' = result_chan
               /\ (w_pc' = "decoding") = InSnapshot(Head(task_queue))
               /\ (w_pc' = "decoding" => w_cur' = Some(Head(task_queue)))
       /\ (w_pc = "decoding" /\ result_chan' # result_chan /\ w_pc' # "decoding")
            => result_chan' = Append(result_chan, DecodeResult(w_cur[1]))
      ]_vars

C1_Witness ==
    /\ w_pc = "pop"
    /\ task_queue # <<>>
    /\ Head(task_queue).key \in dups
    /\ CountKey(task_queue, Head(task_queue).key) = 1
    /\ ~InSnapshot(Head(task_queue))

(* C2: a request whose page is outside the visible rectangle when the worker
   pops it is dropped: the decoder is not called, no result is emitted, the
   worker goes on with its loop and the request is not queued again. *)
C2_InvisibleDropped ==
    [][(PopsRequest /\ ~InSnapshot(Head(task_queue)))
         => /\ w_pc' = "try_recv"
            /\ w_cur' = w_cur
            /\ result_chan' = result_chan
            /\ task_queue' = Tail(task_queue)
            /\ Head(task_queue).key \notin QueuedKeys(task_queue')
      ]_vars

C2_Witness ==
    /\ w_event = "skipped"
    /\ w_pc = "try_recv"
    /\ w_cur = None
    /\ decoder # None

KeyOfPage(i) == generate_thumbnail_key(pages[i + 1])
UvpCompletes == ui_pc = "uvp_bounds" /\ ui_pc' = "idle"
SentKeys ==
    IF Len(task_chan') > Len(task_chan) THEN BatchKeys(task_chan'[Len(task_chan')]) ELSE {}

(* C4: when update_visible_pages completes, no request is sent for a page of
   the visible range whose render key is in the cache; when every page of the
   range is cached nothing is sent at all, and the worker's queue is not
   touched. *)
C4_CachedNotRequested ==
    [][UvpCompletes
         => /\ \A i \in Range(visible_pages') :
                  has_thumbnail(cache, KeyOfPage(i)) => KeyOfPage(i) \notin SentKeys
            /\ (\A i \in Range(visible_pages') : has_thumbnail(cache, KeyOfPage(i)))
                  => task_chan' = task_chan
            /\ task_queue' = task_queue
      ]_vars

C4_Witness ==
    /\ last_call.op = "update_visible_pages"
    /\ visible_pages # <<>>
    /\ \E i \in Range(visible_pages) : has_thumbnail(cache, KeyOfPage(i))
    /\ \E i \in Range(visible_pages) : ~has_thumbnail(cache, KeyOfPage(i))
    /\ task_chan # <<>>
    /\ \A k \in BatchKeys(task_chan[Len(task_chan)]) : ~has_thumbnail(cache, k)

(* C10: a step that stores a new scroll offset through update_offset changes
   nothing else: pages (scale, bounds), total size, visible range, cache, the
   shared snapshot, the channels and the worker's queue stay as they are. *)
C10_OffsetOnly ==
    [][(view_offset' # view_offset /\ last_call'.op # "jump_to_page")
         => UNCHANGED <<pages, total_width, total_height, view_size, zoom, visible_pages,
                        cache, visible_rect, page_bounds_map, task_chan, task_queue,
                        result_chan, current_visible>>
      ]_vars

C10_Witness ==
    /\ last_call.op = "other"
    /\ view_offset # <<0, 0>>
    /\ visible_pages # <<>>
    /\ visible_rect # ComputeVisibleRect(orientation, view_offset, view_size)
    /\ task_queue # <<>>

(* update_visible_pages has returned *)
UvpReturned == ui_pc = "idle" /\ last_call.op = "update_visible_pages"

(* the viewport is positive and every page has been laid out *)
LaidOut ==
    /\ view_size[1] > 0 /\ view_size[2] > 0
    /\ pages # <<>>
    /\ \A n \in 1..Len(pages) : pages[n].width > 0 /\ pages[n].height > 0

(* the pages whose bounds overlap the published rectangle, by linear scan *)
BruteForceVisible ==
    {i \in 0..(Len(pages) - 1) : Overlaps(pages[i + 1].bounds, visible_rect)}

(* C3: for pages produced by layout and any scroll offset, after
   update_visible_pages the visible range is exactly the set of pages whose
   bounds intersect the expanded rectangle along the scroll axis, as a linear
   scan computes it, and it is empty when no page intersects it. *)
C3_RangeIsBruteForce ==
    (UvpReturned /\ LaidOut) => Range(visible_pages) = BruteForceVisible

(* update_visible_pages has returned and the call before it was a
   jump_to_page that returned an offset *)
JumpThenUvp == UvpReturned /\ last_call.ret # None

(* C5 as stated: in every reachable state, jump_to_page(i) for a valid i
   followed by update_visible_pages leaves i in the visible range. *)
C5_JumpAlwaysVisible == JumpThenUvp => last_call.idx \in Range(visible_pages)

(* C5 amended: when the viewport is positive and the pages are laid out,
   jump_to_page(i) for a valid i followed by update_visible_pages leaves i in
   the visible range. *)
C5_JumpVisibleAfterLayout ==
    (JumpThenUvp /\ LaidOut) => last_call.idx \in Range(visible_pages)

C5_Witness ==
    /\ JumpThenUvp
    /\ LaidOut
    /\ last_call.idx = Len(pages) - 1
    /\ last_call.idx \in Range(visible_pages)
    /\ 0 \notin Range(visible_pages)

(* a step of jump_to_page *)
JumpStep == last_call' # last_call /\ last_call'.op = "jump_to_page"

(* C6: after a layout with a positive viewport, jump_to_page(i) for a valid i
   returns and stores the offset whose scroll-axis component is the negated
   leading edge of page i and whose cross-axis component is the old one; after
   the following update_visible_pages, get_first_visible_page returns i. *)
C6_JumpAlignsLeadingEdge ==
    /\ [][(JumpStep /\ last_call'.idx < Len(pages) /\ LaidOut)
            => LET page == pages[last_call'.idx + 1]
               IN /\ last_call'.ret = Some(view_offset')
                  /\ IF orientation = "Vertical"
                     THEN /\ view_offset'[2] = 0 - page.bounds.top
                          /\ view_offset'[1] = view_offset[1]
                     ELSE /\ view_offset'[1] = 0 - page.bounds.left
                          /\ view_offset'[2] = view_offset[2]
         ]_vars
    /\ []((JumpThenUvp /\ LaidOut)
            => /\ get_first_visible_page(visible_pages) = Some(last_call.idx)
               /\ view_offset = last_call.ret[1])

C6_Witness ==
    /\ JumpThenUvp
    /\ LaidOut
    /\ last_call.idx = 1
    /\ get_first_visible_page(visible_pages) = Some(1)
    /\ view_offset = last_call.ret[1]
    /\ view_offset[1] # 0 /\ view_offset[2] # 0

(* C7: jump_to_page with an index not below the number of pages returns
   nothing and leaves offset, layout, visible range, cache, the task channel
   and the worker's queue unchanged. *)
C7_OutOfRangeJump ==
    [][(JumpStep /\ last_call'.idx >= Len(pages))
         => /\ last_call'.ret = None
            /\ UNCHANGED <<view_offset, pages, total_width, total_height, view_size, zoom,
                           visible_pages, cache, task_chan, task_queue>>
      ]_vars

C7_Witness ==
    /\ last_call.op = "jump_to_page"
    /\ last_call.idx >= Len(pages)
    /\ last_call.ret = None
    /\ LaidOut
    /\ view_offset # <<0, 0>>

(* sum of native_height * (scaled_width / native_width) over the first n pages *)
RECURSIVE SumScaledHeights(_, _, _)
SumScaledHeights(ps, n, scaled_width) ==
    IF n = 0 THEN 0
    ELSE SumScaledHeights(ps, n - 1, scaled_width)
         + Mul(ps[n].info.height, Div(scaled_width, ps[n].info.width))

(* sum of native_width * (scaled_height / native_height) over the first n pages *)
RECURSIVE SumScaledWidths(_, _, _)
SumScaledWidths(ps, n, scaled_height) ==
    IF n = 0 THEN 0
    ELSE SumScaledWidths(ps, n - 1, scaled_height)
         + Mul(ps[n].info.width, Div(scaled_height, ps[n].info.height))

(* the call is not suppressed: the size changed, the zoom changed by more
   than 0.001, or force is set *)
Applied(vs, zm, force) == view_size # vs \/ Abs(zoom - zm) > ZoomEps \/ force

(* C8 as stated: in vertical orientation, after every update_view_size with a
   positive viewport and zoom, total_height is the sum of
   native_height * (w * z / native_width) and total_width is w * z. *)
C8_TotalsAfterEveryCall ==
    [][\A vs \in ViewSizeInputs, zm \in ZoomInputs, force \in BOOLEAN :
          (orientation = "Vertical" /\ vs[1] > 0 /\ vs[2] > 0
             /\ update_view_size(vs[1], vs[2], zm, force))
          => /\ total_width' = Mul(vs[1], zm)
             /\ total_height' = SumScaledHeights(pages', Len(pages'), Mul(vs[1], zm))
      ]_vars

(* C8 amended: the same totals after every update_view_size that is not
   suppressed as a repeated call. *)
C8_TotalsAfterAppliedCall ==
    [][\A vs \in ViewSizeInputs, zm \in ZoomInputs, force \in BOOLEAN :
          (orientation = "Vertical" /\ vs[1] > 0 /\ vs[2] > 0 /\ Applied(vs, zm, force)
             /\ update_view_size(vs[1], vs[2], zm, force))
          => /\ total_width' = Mul(vs[1], zm)
             /\ total_height' = SumScaledHeights(pages', Len(pages'), Mul(vs[1], zm))
      ]_vars

C8_Witness ==
    /\ orientation = "Vertical"
    /\ LaidOut
    /\ zoom = 2 * Unit
    /\ view_size = <<2 * Unit, Unit>>
    /\ total_width = Mul(view_size[1], zoom)
    /\ total_height = SumScaledHeights(pages, Len(pages), total_width)
    /\ total_height > total_width

(* ps is the layout of its pages for viewport vs and zoom zm *)
IsLayoutOf(ps, vs, zm) ==
    \A n \in 1..Len(ps) :
        IF orientation = "Vertical"
        THEN LET w == Mul(vs[1], zm)
             IN /\ ps[n].bounds = Rect(0, SumScaledHeights(ps, n - 1, w), w,
                                       SumScaledHeights(ps, n, w))
                /\ ps[n].info.scale = Div(w, ps[n].info.width)
        ELSE LET h == Mul(vs[2], zm)
             IN /\ ps[n].bounds = Rect(SumScaledWidths(ps, n - 1, h), 0,
                                       SumScaledWidths(ps, n, h), h)
                /\ ps[n].info.scale = Div(h, ps[n].info.height)

(* C9 as stated: update_view_size changes nothing when width, height and zoom
   equal the stored values and force is false; in every other case the layout
   is recomputed for the new size and zoom. *)
C9_NoOpOrRelayout ==
    [][\A vs \in ViewSizeInputs, zm \in ZoomInputs, force \in BOOLEAN :
          update_view_size(vs[1], vs[2], zm, force)
          => IF vs = view_size /\ zm = zoom /\ ~force
             THEN UNCHANGED <<view_size, zoom, pages, total_width, total_height,
                              visible_pages, cache>>
             ELSE IsLayoutOf(pages', vs, zm)
      ]_vars

(* C9 amended: update_view_size changes nothing when width and height equal
   the stored values, zoom is within 0.001 of the stored zoom and force is
   false; otherwise size and zoom are stored, visible range and cache are
   kept, and the layout is recomputed unless a viewport dimension is zero, in
   which case the previous layout is kept. *)
C9_NoOpOrStoreAndRelayout ==
    [][\A vs \in ViewSizeInputs, zm \in ZoomInputs, force \in BOOLEAN :
          update_view_size(vs[1], vs[2], zm, force)
          => IF ~Applied(vs, zm, force)
             THEN UNCHANGED <<view_size, zoom, pages, total_width, total_height,
                              visible_pages, cache>>
             ELSE /\ view_size' = vs
                  /\ zoom' = zm
                  /\ UNCHANGED <<visible_pages, cache>>
                  /\ IF vs[1] = 0 \/ vs[2] = 0
                     THEN UNCHANGED <<pages, total_width, total_height>>
                     ELSE IsLayoutOf(pages', vs, zm)
      ]_vars

C9_Witness ==
    /\ view_size = <<0, 0>>
    /\ zoom = 2 * Unit
    /\ pages # <<>>
    /\ IsLayoutOf(pages, <<Unit, Unit>>, Unit)
    /\ total_width > 0 /\ total_height > 0

(* the keys stored in an ImageCache *)
CacheKeys(c) == {c.cache[i] : i \in 1..Len(c.cache)}

(* entries other than key keep their order by last access *)
OthersKeepOrder(c, c2, key) ==
    \A a, b \in (CacheKeys(c) \cap CacheKeys(c2)) \ {key} :
        (\E i, j \in 1..Len(c.cache) : i < j /\ c.cache[i] = a /\ c.cache[j] = b)
        => (\E i, j \in 1..Len(c2.cache) : i < j /\ c2.cache[i] = a /\ c2.cache[j] = b)

(* key is stored once and is the most recently accessed entry *)
IsNewest(c2, key) ==
    /\ c2.cache # <<>>
    /\ c2.cache[Len(c2.cache)] = key
    /\ Cardinality({i \in 1..Len(c2.cache) : c2.cache[i] = key}) = 1

(* a put of a new key into a full cache c gives c2 *)
PutEvictsOldest(c, c2, key) ==
    (~CacheHas(c, key) /\ Len(c.cache) >= c.max_size)
    => /\ CacheKeys(c) \ CacheKeys(c2) = {c.cache[1]}
       /\ ~CacheHas(c2, c.cache[1])
       /\ CacheKeys(c2) = (CacheKeys(c) \ {c.cache[1]}) \cup {key}
       /\ IsNewest(c2, key)
       /\ OthersKeepOrder(c, c2, key)

(* a get of key on c gives c2 and reports hit *)
GetStampsHit(c, c2, key, hit) ==
    /\ hit = (key \in CacheKeys(c))
    /\ CacheKeys(c2) = CacheKeys(c)
    /\ OthersKeepOrder(c, c2, key)
    /\ hit => IsNewest(c2, key)
    /\ ~hit => c2 = c

(* C11: a put of a new key into a cache at capacity evicts exactly one entry,
   the one whose latest access (its put or its latest get hit) is the oldest:
   puts and get hits make their entry the most recently accessed one and keep
   the order of the others, the put removes the least recently accessed entry
   and keeps every other key, and a get of a key that is not stored returns
   absent. *)
C11_PutEvictsLeastRecent ==
    [][/\ \A i \in CachePageInputs, zm \in ZoomInputs :
             /\ CallPutPageImage(i, zm)
                  => PutEvictsOldest(cache.image_cache, cache'.image_cache, PageKey(i, zm))
             /\ CallGetPageImage(i, zm)
                  => GetStampsHit(cache.image_cache, cache'.image_cache, PageKey(i, zm),
                                  last_call'.ok)
       /\ \A key \in ThumbKeyInputs :
             /\ CallPutThumbnail(key)
                  => PutEvictsOldest(cache.thumbnail_cache, cache'.thumbnail_cache,
                                     ThumbKey(key))
             /\ CallGetThumbnail(key)
                  => GetStampsHit(cache.thumbnail_cache, cache'.thumbnail_cache,
                                  ThumbKey(key), last_call'.ok)
      ]_vars

C11_Witness ==
    /\ last_call.op = "put_page_image"
    /\ last_call.ret = Some(1)
    /\ Len(cache.image_cache.cache) = CacheCap
    /\ \E zm \in ZoomInputs : IsNewest(cache.image_cache, PageKey(last_call.idx, zm))
    /\ \E i \in CachePageInputs, zm \in ZoomInputs : ~CacheHas(cache.image_cache, PageKey(i, zm))

(* both caches hold no entry *)
CacheEmpty == cache.image_cache.cache = <<>> /\ cache.thumbnail_cache.cache = <<>>

(* a call of the consumer API has returned *)
Returned(op) == ui_pc = "idle" /\ last_call.op = op

(* C12: a step of update_zoom, update_view_size or set_crop that changes the
   zoom or the crop mode leaves the cache empty. *)
C12_ZoomOrCropChangeClearsCache ==
    [][(zoom' # zoom \/ crop' # crop) => CacheEmpty']_vars

(* C13: when open_document, reset or shutdown has returned, the full-page
   cache and the thumbnail cache are both empty. *)
C13_EmptyAfterOpenResetShutdown ==
    [][/\ (Returned("open_document") \/ Returned("reset") \/ Returned("shutdown"))'
          => CacheEmpty'
       /\ ((\E path \in Paths : open_document(path)) \/ reset \/ shutdown) => CacheEmpty'
       /\ ui_pc = "load_wait" => cache' = cache
      ]_vars

C13_Witness ==
    /\ Returned("open_document")
    /\ CacheEmpty
    /\ result_chan # <<>>
    /\ decoder # None

(* C14: when open_document returns after a failed load, it returns one failure
   (the single response of the worker is consumed and it is the error), and
   the view state has no pages, an empty visible range and zero total size. *)
C14_FailedLoadLeavesEmptyState ==
    [][/\ (Returned("open_document") /\ ~last_call.ok)'
          => /\ pages' = <<>>
             /\ visible_pages' = <<>>
             /\ total_width' = 0
             /\ total_height' = 0
       /\ (open_document_return /\ PdfDecoderOpen(last_call.path) = None)
          => /\ ~last_call'.ok
             /\ resp_chan = <<None>>
             /\ resp_chan' = <<>>
      ]_vars

C14_Witness ==
    /\ Returned("open_document")
    /\ ~last_call.ok
    /\ last_call.path = BadPath
    /\ decoder # None
    /\ pages = <<>>
    /\ page_bounds_map # <<>>

(* C15: after open_document has returned success the view state holds exactly
   one Page per page of the decoder's document, in index order. *)
C15_PagesAfterSuccessfulOpen ==
    (Returned("open_document") /\ last_call.ok)
    => /\ decoder # None
       /\ Len(pages) = Len(decoder[1])
       /\ \A i \in 1..Len(pages) : pages[i].info = decoder[1][i] /\ pages[i].info.index = i - 1

(* the Shutdown signal has been sent and not yet received *)
ShutdownInChan == \E i \in 1..Len(task_chan) : task_chan[i] = ShutdownTask

(* the service is being dropped or has been dropped *)
ShutdownSent == last_call.op = "destroy"

(* C16: a render_page call that fails emits no result, leaves the queued
   requests in place and continues the loop at its first step; and every
   queued request, whether queued behind a failed one or accepted later, is
   eventually popped, unless the service is shut down or new tasks are
   pending in the channel (the loop receives those before it pops). *)
C16_FailureDoesNotStopWorker ==
    /\ [][(w_pc = "decoding" /\ w_event' = "failed")
          => /\ result_chan' = result_chan
             /\ task_queue' = task_queue
             /\ task_chan' = task_chan
             /\ w_pc' = "try_recv"]_vars
    /\ \A key \in AllKeys :
           (key \in QueuedKeys(task_queue))
           ~> (key \notin QueuedKeys(task_queue) \/ ShutdownSent \/ task_chan # <<>>)

C16_Witness ==
    /\ w_event = "failed"
    /\ w_pc = "try_recv"
    /\ task_queue # <<>>
    /\ result_chan = <<>>
    /\ ~ShutdownSent

(* C17: once Shutdown is in the task channel the worker eventually exits its
   loop, whatever is queued; the step that receives Shutdown exits at once,
   leaving the queue and the results alone, and after the exit the worker
   state and the channels it writes never change. *)
C17_ShutdownStopsWorker ==
    /\ ShutdownInChan ~> (w_pc = "exit")
    /\ [][(ShutdownInChan /\ ~ShutdownInChan')
          => /\ w_pc' = "exit"
             /\ UNCHANGED <<task_queue, w_cur, decoder, result_chan, resp_chan>>]_vars
    /\ [][w_pc = "exit" => UNCHANGED <<workerVars, result_chan, resp_chan>>]_vars

C17_Witness ==
    /\ w_pc = "exit"
    /\ ui_pc = "dropped"
    /\ task_queue # <<>>
    /\ result_chan # <<>>

(* q is q2 with zero or more requests taken from its back *)
IsPrefix(q, q2) == Len(q) <= Len(q2) /\ SubSeq(q2, 1, Len(q)) = q

(* C18: the task queue is first-in first-out whatever the priorities: a step
   either leaves it alone, removes its front request, or adds requests behind
   the ones already queued; the request a decode starts on is the front one;
   and every result appended to the result channel is the one of the request
   being decoded, behind the results already there. *)
C18_QueueIsFifo ==
    [][/\ \/ task_queue' = task_queue
          \/ (task_queue # <<>> /\ task_queue' = Tail(task_queue))
          \/ (IsPrefix(task_queue, task_queue') /\ Len(task_queue') > Len(task_queue))
       /\ (w_cur' # w_cur /\ w_cur' # None)
          => (/\ task_queue # <<>>
              /\ w_cur' = Some(Head(task_queue))
              /\ task_queue' = Tail(task_queue))
       /\ (result_chan' # result_chan /\ Len(result_chan') >= Len(result_chan))
          => (w_cur # None /\ result_chan' = Append(result_chan, DecodeResult(w_cur[1])))
      ]_vars

C18_Witness ==
    /\ w_pc = "decoding"
    /\ w_cur[1].priority = "Cropped"
    /\ task_queue # <<>>
    /\ Head(task_queue).priority = "Thumbnail"

(* a step in which a decoder call is made or returns: the document is opened,
   a response or a result is sent, or a render starts *)
DecoderStep ==
    \/ decoder' # decoder
    \/ Len(resp_chan') > Len(resp_chan)
    \/ Len(result_chan') > Len(result_chan)
    \/ w_cur' # w_cur

(* C19: decoder calls are made by the worker only and one at a time: a step
   with a decoder call leaves the UI thread where it is; while render_page is
   in progress no task is received, so no open, outline or second render
   starts; and at most one request is being rendered. *)
C19_DecoderCallsSerialized ==
    [][/\ DecoderStep => UNCHANGED <<uiVars, ui_pc, last_call>>
       /\ (w_pc = "decoding")
          => /\ decoder' = decoder
             /\ IsPrefix(task_chan, task_chan')
             /\ Len(resp_chan') <= Len(resp_chan)
             /\ UNCHANGED <<task_queue, current_visible>>
             /\ (w_cur' = w_cur \/ (w_cur' = None /\ w_pc' = "try_recv"))
       /\ (w_cur' # None) <=> (w_pc' = "decoding")
      ]_vars

C19_Witness ==
    /\ w_pc = "decoding"
    /\ w_cur # None
    /\ ui_pc = "idle"
    /\ last_call.op = "update_visible_pages"
    /\ task_chan # <<>>
    /\ task_chan[1].type = "RenderPages"

(* the UI thread is inside a call and cannot take a step until the worker has
   taken one *)
UiBlocked == ui_pc # "dropped" /\ ~ENABLED DownNext

(* update_visible_pages, its dispatch and the result drain can always run *)
RenderingNeverWaits ==
    /\ (ui_pc = "idle" /\ Len(task_chan) < MaxChan) => ENABLED update_visible_pages_begin
    /\ (ui_pc = "uvp_bounds") => ENABLED update_visible_pages_end
    /\ (ui_pc = "idle" /\ result_chan # <<>>) => ENABLED drain_results

(* C20 as stated: the rendering operations of the UI thread never wait for the
   worker, and the UI thread waits for the worker only inside the
   document-load call. *)
C20_OnlyLoadBlocks ==
    /\ RenderingNeverWaits
    /\ UiBlocked => last_call.op = "open_document"

(* C20: the rendering operations of the UI thread never wait for the worker,
   whatever the worker is doing; the UI thread waits for the worker only
   inside the synchronous requests (the document load, the outline request of
   set_pages_from_info) and in the join when the service is dropped. *)
C20_RenderingNeverBlocks ==
    /\ RenderingNeverWaits
    /\ UiBlocked => ui_pc \in {"load_wait", "outline_wait", "join_wait"}
    /\ (ui_pc = "load_wait" /\ ~UiBlocked) => resp_chan # <<>>
    /\ (ui_pc = "outline_wait" /\ ~UiBlocked) => resp_chan # <<>>
    /\ (ui_pc = "join_wait" /\ ~UiBlocked) => w_pc = "exit"

C20_Witness ==
    /\ w_pc = "decoding"
    /\ ui_pc = "uvp_bounds"
    /\ ENABLED update_visible_pages_end
    /\ task_queue # <<>>

(* the step receives a RenderPages task *)
ReceivesBatch ==
    /\ task_chan # <<>>
    /\ Head(task_chan).type = "RenderPages"
    /\ task_chan' = Tail(task_chan)

(* the requests of the received batch whose key is not queued *)
NewKeys == BatchKeys(Head(task_chan)) \ QueuedKeys(task_queue)

(* C21: the task queue never holds two requests with the same key; a received
   batch leaves the queued requests as they are and adds one request per key
   that is not queued, so a request whose key is queued is not added, even
   when its crop flag differs from the queued one's. *)
C21_OneQueuedRequestPerKey ==
    /\ [](\A i, j \in 1..Len(task_queue) : i # j => task_queue[i].key # task_queue[j].key)
    /\ [][ReceivesBatch
          => /\ IsPrefix(task_queue, task_queue')
             /\ QueuedKeys(task_queue') = QueuedKeys(task_queue) \cup BatchKeys(Head(task_chan))
             /\ Len(task_queue') = Len(task_queue) + Cardinality(NewKeys)]_vars

C21_Witness ==
    /\ task_queue # <<>>
    /\ task_chan = <<>>
    /\ \E r \in current_visible : \E i \in 1..Len(task_queue) :
           /\ task_queue[i].key = r.key
           /\ task_queue[i].crop # r.crop
           /\ CountKey(task_queue, r.key) = 1

(* the front request is visible by the check made at pop *)
FrontVisible ==
    LET r == Head(task_queue)
    IN IF r.visibility_checker
       THEN visibility_checker(r.page_info.index, orientation, visible_rect, page_bounds_map)
       ELSE \E v \in current_visible : RenderPageEq(v, r)

(* a decode ends: Completed with exactly the result of the request, or Failed
   with none; and results come from nowhere else *)
DecodeEndsOnce ==
    /\ (w_pc = "decoding" /\ w_pc' # "decoding")
       => /\ w_cur' = None
          /\ w_event' \in {"completed", "failed"}
          /\ (w_event' = "completed")
             <=> (result_chan' = Append(result_chan, DecodeResult(w_cur[1])))
          /\ (w_event' = "failed") <=> (result_chan' = result_chan)
    /\ (Len(result_chan') > Len(result_chan)) => (w_pc = "decoding" /\ w_event' = "completed")

(* C22 as stated: a popped request is Skipped when it is not visible and
   Decoding otherwise, and a decode ends Completed with one result or Failed
   with none. *)
C22_RequestStateMachine ==
    [][/\ PopsRequest
          => /\ task_queue' = Tail(task_queue)
             /\ result_chan' = result_chan
             /\ w_event' \in {"skipped", "decoding"}
             /\ (w_event' = "skipped") <=> ~FrontVisible
             /\ (w_event' = "decoding") => w_cur' = Some(Head(task_queue))
       /\ DecodeEndsOnce
      ]_vars

(* C22: a popped request leaves the queue and is Skipped when it is not
   visible, dropped without a decode when it is visible and no document is
   open, and Decoding otherwise; a decode ends Completed with exactly one
   result carrying the request's key or Failed with none; no other step
   emits a result. *)
C22_PoppedRequestEndsOnce ==
    [][/\ PopsRequest
          => /\ task_queue' = Tail(task_queue)
             /\ result_chan' = result_chan
             /\ w_event' \in {"skipped", "no_decoder", "decoding"}
             /\ (w_event' = "skipped") <=> ~FrontVisible
             /\ (w_event' = "no_decoder") <=> (FrontVisible /\ decoder = None)
             /\ (w_event' = "decoding") => w_cur' = Some(Head(task_queue))
             /\ (w_event' # "decoding") => (w_cur' = None /\ w_pc' = "try_recv")
       /\ DecodeEndsOnce
      ]_vars

C22_Witness ==
    /\ w_event = "no_decoder"
    /\ decoder = None
    /\ w_pc = "try_recv"
    /\ result_chan = <<>>
    /\ current_visible # {}

(* the bounds map update_visible_pages builds from the page list ps *)
BoundsMapOf(ps) ==
    [idx \in {ps[i].info.index : i \in 1..Len(ps)} |->
        (CHOOSE p \in {ps[i] : i \in 1..Len(ps)} : p.info.index = idx).bounds]

(* the step pops a request and runs its visibility callback *)
PopsAndChecks == PopsRequest /\ Head(task_queue).visibility_checker

(* C23: the worker's visibility check never sees the rectangle of one
   update_visible_pages call with the bounds map of another: when it runs
   after a call has stored its rectangle, the bounds map is already the one
   that call builds. *)
C23_SnapshotRefreshedAtomically ==
    [][(PopsAndChecks /\ ui_pc = "uvp_bounds") => page_bounds_map = BoundsMapOf(pages)]_vars

(* the worker holds no snapshot lock while a decoder call is in progress, and
   holds one only inside the visibility callback of the request it popped *)
LocksOnlyInCallback ==
    /\ (w_pc = "decoding") => (w_locks = <<>>)
    /\ (w_locks # <<>>) => (w_pc \in {"lock_map", "checking"} /\ w_cur # None)

(* C24 as stated: the worker holds a snapshot lock only in the visibility
   callback before a decode, never during a decoder call, and acquires a
   lock only when it holds none. *)
C24_NeverTwoLocks ==
    /\ []LocksOnlyInCallback
    /\ [][(Len(w_locks') > Len(w_locks)) => (w_locks = <<>>)]_vars

(* C24: the worker holds a snapshot lock only in the visibility callback
   before a decode and never during a decoder call; in the callback it locks
   the rectangle first and the bounds map second while still holding the
   rectangle, and drops both when the callback returns, before the decode
   starts or the request is dropped. *)
C24_LocksReleasedBeforeDecode ==
    /\ []LocksOnlyInCallback
    /\ [](w_locks \in {<<>>, <<"visible_rect">>, <<"visible_rect", "page_bounds_map">>})
    /\ [][/\ (Len(w_locks') > Len(w_locks)) => (Len(w_locks') = Len(w_locks) + 1)
          /\ (w_locks # <<>> /\ w_locks' # w_locks /\ Len(w_locks') <= Len(w_locks))
             => (/\ w_locks = <<"visible_rect", "page_bounds_map">>
                 /\ w_locks' = <<>>
                 /\ w_pc' \in {"decoding", "try_recv"})
          /\ (w_locks # <<>>)
             => (UNCHANGED <<task_queue, decoder>> /\ Len(result_chan') <= Len(result_chan))
         ]_vars

C24_Witness ==
    /\ w_locks = <<"visible_rect", "page_bounds_map">>
    /\ w_pc = "checking"
    /\ ui_pc = "uvp_bounds"
    /\ ~ENABLED (LockFree("page_bounds_map") /\ update_visible_pages_end)

(* C25: staleness is decided when the request is executed, not when it was
   queued.  The shared rectangle is stored only by the first part of
   update_visible_pages, from the offset and view size of that call, and the
   shared bounds map only by its second part, from the pages of that call;
   the callback of a popped request is evaluated on the rectangle and the
   bounds stored at that moment, whichever call created the request. *)
C25_StalenessAtExecution ==
    [][/\ (visible_rect' # visible_rect)
            => /\ ui_pc = "idle" /\ ui_pc' = "uvp_bounds"
               /\ visible_rect' = ComputeVisibleRect(orientation, view_offset, view_size)
       /\ (page_bounds_map' # page_bounds_map)
            => /\ ui_pc = "uvp_bounds" /\ ui_pc' = "idle"
               /\ page_bounds_map' = BoundsMapOf(pages)
       /\ (w_pc = "checking" /\ w_pc' # "checking")
            => /\ (w_event' = "skipped") = ~InSnapshot(w_cur[1])
               /\ (w_event' = "skipped") => (w_cur' = None /\ w_pc' = "try_recv")
      ]_vars

(* a request is about to be checked after a later, completed
   update_visible_pages moved the range away from its page *)
C25_Witness ==
    /\ w_pc = "checking"
    /\ ui_pc = "idle"
    /\ last_call.op = "update_visible_pages"
    /\ visible_pages # <<>>
    /\ w_cur[1].page_info.index \notin Range(visible_pages)
    /\ ~InSnapshot(w_cur[1])

(* C26: cancellation is cooperative.  A decode starts only from the one
   visibility check of its request, which found the page in the snapshot;
   from then on the request stays the one being decoded whatever happens to
   the snapshot, the decode ends only by returning, never by a skip, a
   successful return appends the DecodeResult of that request, and that
   return stays possible when the page has left the visible rectangle. *)
C26_NoPreemption ==
    /\ []((w_pc = "decoding" /\ ~InSnapshot(w_cur[1]) /\ Len(result_chan) < MaxResults)
            => ENABLED (/\ worker_decode_done(TRUE)
                        /\ result_chan' = Append(result_chan, DecodeResult(w_cur[1]))))
    /\ [][/\ (w_pc # "decoding" /\ w_pc' = "decoding")
               => (w_pc = "checking" /\ InSnapshot(w_cur[1]) /\ w_cur' = w_cur)
          /\ (w_pc = "decoding")
               => \/ (w_pc' = "decoding" /\ w_cur' = w_cur /\ w_event' = w_event
                       /\ Len(result_chan') <= Len(result_chan))
                  \/ /\ w_pc' = "try_recv"
                     /\ w_event' \in {"completed", "failed"}
                     /\ (w_event' = "completed")
                          => result_chan' = Append(result_chan, DecodeResult(w_cur[1]))
                     /\ (w_event' = "failed") => result_chan' = result_chan
         ]_vars

(* a completed update_visible_pages has moved the rectangle away from the
   page whose decode is in progress *)
C26_Witness ==
    /\ w_pc = "decoding"
    /\ ui_pc = "idle"
    /\ last_call.op = "update_visible_pages"
    /\ ~InSnapshot(w_cur[1])
    /\ w_cur[1].page_info.index \notin Range(visible_pages)
    /\ Len(result_chan) < MaxResults

(* the worker handles the task at the head of the channel *)
HandlesTask == task_chan # <<>> /\ task_chan' = Tail(task_chan) /\ w_pc \in {"try_recv", "recv"}

(* C27: the worker leaves its loop only by the step that receives Shutdown
   (the channels cannot close before that: both peers are fields of the
   service, dropped after the thread was joined); the step that skips a
   request, finds no decoder, ends a decode with a failure, or handles a
   load that fails continues the loop at its first step. *)
C27_OnlyShutdownEndsWorker ==
    /\ [](w_pc = "exit" => ShutdownSent)
    /\ [][/\ (w_pc # "exit" /\ w_pc' = "exit")
               => (HandlesTask /\ Head(task_chan) = ShutdownTask)
          /\ (w_pc \in {"pop", "decoding"} /\ w_pc' # w_pc)
               => /\ w_pc' \in {"try_recv", "recv", "decoding"}
                  /\ (w_event' \in {"skipped", "no_decoder", "failed"}) => w_pc' = "try_recv"
          /\ (HandlesTask /\ Head(task_chan).type = "LoadDocument")
               => /\ w_pc' = "try_recv"
                  /\ resp_chan' = Append(resp_chan, PdfDecoderOpen(Head(task_chan).path))
         ]_vars

(* the worker is still in its loop after a load failed and a request that
   arrived with no document open was dropped *)
C27_Witness ==
    /\ w_pc = "try_recv"
    /\ w_event = "no_decoder"
    /\ decoder = None
    /\ ui_pc = "idle"
    /\ last_call.op = "open_document"
    /\ ~last_call.ok
    /\ ~ShutdownSent

(* leading and trailing edge of a page along the scroll axis *)
Leading(p) == AxisLo(p.bounds)
Trailing(p) == AxisHi(p.bounds)

(* the leading edges of consecutive pages strictly increase *)
StrictlyMonotonic(ps) == \A i \in 1..(Len(ps) - 1) : Leading(ps[i + 1]) > Leading(ps[i])

(* every page has received a positive size from a layout pass *)
Sized(ps) == ps # <<>> /\ \A n \in 1..Len(ps) : ps[n].width > 0 /\ ps[n].height > 0

(* C28 as stated: whenever the view state holds pages, the leading edges of
   consecutive pages strictly increase. *)
C28_MonotonicWheneverPages == pages # <<>> => StrictlyMonotonic(pages)

(* C28 amended: once a layout pass with a positive viewport and zoom has run
   over the pages held, the leading edges of consecutive pages strictly
   increase, and they keep doing so until the pages are replaced; every step
   that lays the pages out with a positive viewport and zoom establishes it. *)
C28_MonotonicAfterLayout ==
    /\ [](Sized(pages) => StrictlyMonotonic(pages))
    /\ [][(pages' # pages /\ pages # <<>> /\ pages' # <<>>
             /\ view_size'[1] > 0 /\ view_size'[2] > 0 /\ zoom' > 0)
           => (Sized(pages') /\ StrictlyMonotonic(pages'))]_vars

(* several pages, laid out one after the other *)
C28_Witness ==
    /\ Len(pages) >= 2
    /\ Sized(pages)
    /\ Leading(pages[1]) = 0
    /\ Leading(pages[2]) > 0
    /\ Leading(pages[Len(pages)]) >= Leading(pages[2])

(* extent of a page and of the document along the scroll axis *)
Extent(p) == IF orientation = "Vertical" THEN p.height ELSE p.width
TotalExtent(tw, th) == IF orientation = "Vertical" THEN th ELSE tw

(* the pages are stacked from 0 without gaps or overlaps, each as long as
   its stored size, and the document ends where the last page ends *)
Stacked(ps, tw, th) ==
    /\ Leading(ps[1]) = 0
    /\ \A i \in 1..(Len(ps) - 1) : Leading(ps[i + 1]) = Trailing(ps[i])
    /\ \A n \in 1..Len(ps) : Trailing(ps[n]) - Leading(ps[n]) = Extent(ps[n])
    /\ TotalExtent(tw, th) = Trailing(ps[Len(ps)])

(* the stored size of every page is its native size scaled to the target
   width (vertical) or target height (horizontal) of viewport vs and zoom zm *)
ScaledTo(ps, vs, zm) ==
    \A n \in 1..Len(ps) :
        IF orientation = "Vertical"
        THEN /\ ps[n].width = Mul(vs[1], zm)
             /\ ps[n].height = Mul(ps[n].info.height, Div(Mul(vs[1], zm), ps[n].info.width))
        ELSE /\ ps[n].height = Mul(vs[2], zm)
             /\ ps[n].width = Mul(ps[n].info.width, Div(Mul(vs[2], zm), ps[n].info.height))

(* C29: every step that lays the pages out with a positive viewport and zoom
   leaves them stacked along the scroll axis: page 0 starts at 0, page i+1
   starts where page i ends, every page is as long as its scaled size, and
   the total extent of the document is the trailing edge of the last page;
   pages that have been laid out stay stacked until they are replaced. *)
C29_StackedAfterLayout ==
    /\ [](Sized(pages) => Stacked(pages, total_width, total_height))
    /\ [][(pages' # pages /\ pages # <<>> /\ pages' # <<>>
             /\ view_size'[1] > 0 /\ view_size'[2] > 0 /\ zoom' > 0)
           => /\ Stacked(pages', total_width', total_height')
              /\ ScaledTo(pages', view_size', zoom')]_vars

(* a horizontal strip of several pages, zoomed in, longer than the viewport *)
C29_Witness ==
    /\ orientation = "Horizontal"
    /\ Len(pages) >= 2
    /\ Sized(pages)
    /\ zoom = 2 * Unit
    /\ ScaledTo(pages, view_size, zoom)
    /\ Leading(pages[2]) = pages[1].width
    /\ total_width = Trailing(pages[Len(pages)])
    /\ total_width > view_size[1]

(* C30: in every state the visible range is empty or the ascending run of
   all indices from its first to its last element, none missing, none
   repeated, with first <= last. *)
C30_VisibleRangeContiguous ==
    /\ \A i \in 1..(Len(visible_pages) - 1) : visible_pages[i + 1] = visible_pages[i] + 1
    /\ visible_pages # <<>>
         => /\ visible_pages[1] >= 0
            /\ visible_pages[1] <= visible_pages[Len(visible_pages)]
            /\ Len(visible_pages) = visible_pages[Len(visible_pages)] - visible_pages[1] + 1

(* update_visible_pages has resolved a range of several laid out pages *)
C30_Witness ==
    /\ UvpReturned
    /\ LaidOut
    /\ Len(visible_pages) >= 2
    /\ visible_pages[Len(visible_pages)] = visible_pages[1] + Len(visible_pages) - 1
    /\ visible_pages[Len(visible_pages)] = Len(pages) - 1

(* the one tile that covers the whole page *)
WholePageTile(p) == Len(p.nodes) = 1 /\ p.nodes[1].bounds = Rect(0, 0, Unit, Unit)

(* C31: every page the view state holds whose rendered width and height are
   positive and at or below the tile threshold has exactly one tile, with
   relative bounds (0,0,1,1), also after a layout pass set its size. *)
C31_SmallPageHasOneTile ==
    \A n \in 1..Len(pages) :
        (/\ pages[n].width > 0 /\ pages[n].height > 0
         /\ pages[n].width <= MAX_BLOCK_SIZE /\ pages[n].height <= MAX_BLOCK_SIZE)
        => WholePageTile(pages[n])

(* the tiles of the one page of the tile specification, its columns and rows *)
TileNodes == pages[1].nodes
TileCols == Cardinality({TileNodes[k].bounds.left : k \in 1..Len(TileNodes)})
TileRows == Cardinality({TileNodes[k].bounds.top : k \in 1..Len(TileNodes)})
TileAt(x, y) == TileNodes[y * TileCols + x + 1].bounds
ExceedsThreshold == pages[1].width > MAX_BLOCK_SIZE \/ pages[1].height > MAX_BLOCK_SIZE

(* the tiles form a grid of TileCols by TileRows that covers the unit
   square; each tile reaches the overlap past every edge it shares with a
   neighbour and no tile leaves the unit square *)
GridCovers ==
    /\ Len(TileNodes) = TileCols * TileRows
    /\ TileCols * TileRows > 1
    /\ \A x \in 0..(TileCols - 1), y \in 0..(TileRows - 1) :
          LET t == TileAt(x, y)
          IN /\ 0 <= t.left /\ t.left < t.right /\ t.right <= Unit
             /\ 0 <= t.top /\ t.top < t.bottom /\ t.bottom <= Unit
             /\ (x = 0) => t.left = 0
             /\ (y = 0) => t.top = 0
             /\ (x = TileCols - 1) => t.right = Unit
             /\ (y = TileRows - 1) => t.bottom = Unit
             /\ (x > 0) => TileAt(x - 1, y).right - t.left = 2 * TileOverlap
             /\ (y > 0) => TileAt(x, y - 1).bottom - t.top = 2 * TileOverlap
             /\ (y > 0) => (t.left = TileAt(x, 0).left /\ t.right = TileAt(x, 0).right)
             /\ (x > 0) => (t.top = TileAt(0, y).top /\ t.bottom = TileAt(0, y).bottom)

(* pixel size of a block along each axis, in fixed point *)
BlockWidth == pages[1].width \div TileCols
BlockHeight == pages[1].height \div TileRows

(* C32 as stated: for a page above the threshold the tiles form a covering
   grid with overlapping neighbours inside the unit square, and the pixel
   size of a block along every split axis lies between 768 and 1024. *)
C32_BlocksBetweenMinAndMax ==
    (pages # <<>> /\ pages[1].width > 0 /\ pages[1].height > 0 /\ ExceedsThreshold)
    => /\ GridCovers
       /\ (TileCols > 1) => (MIN_BLOCK_SIZE <= BlockWidth /\ BlockWidth <= MAX_BLOCK_SIZE)
       /\ (TileRows > 1) => (MIN_BLOCK_SIZE <= BlockHeight /\ BlockHeight <= MAX_BLOCK_SIZE)

(* some number of blocks gives a block size between 768 and 1024 *)
Splittable(length) ==
    \E c \in 1..CeilDiv(length, MIN_BLOCK_SIZE) :
        c * MIN_BLOCK_SIZE <= length /\ length <= c * MAX_BLOCK_SIZE

(* C32 amended: the same grid, with the pixel size of a block along every
   split axis at most 1024 and more than 384 (half the minimum), at least
   768 whenever some number of blocks allows it, and an axis split exactly
   when it is longer than 1024. *)
C32_BlocksAtMostMax ==
    (pages # <<>> /\ pages[1].width > 0 /\ pages[1].height > 0 /\ ExceedsThreshold)
    => /\ GridCovers
       /\ (TileCols > 1) => (MIN_BLOCK_SIZE < 2 * BlockWidth /\ BlockWidth <= MAX_BLOCK_SIZE)
       /\ (TileRows > 1) => (MIN_BLOCK_SIZE < 2 * BlockHeight /\ BlockHeight <= MAX_BLOCK_SIZE)
       /\ (TileCols > 1 /\ Splittable(pages[1].width)) => MIN_BLOCK_SIZE <= BlockWidth
       /\ (TileRows > 1 /\ Splittable(pages[1].height)) => MIN_BLOCK_SIZE <= BlockHeight
       /\ (TileCols > 1) = (pages[1].width > MAX_BLOCK_SIZE)
       /\ (TileRows > 1) = (pages[1].height > MAX_BLOCK_SIZE)

(* a page split in both directions, with blocks narrower than the minimum *)
C32_Witness ==
    /\ pages # <<>>
    /\ pages[1].width = 2049 * Unit
    /\ pages[1].height = 1025 * Unit
    /\ TileCols = 3
    /\ TileRows = 2
    /\ Len(TileNodes) = 6
    /\ BlockWidth < MIN_BLOCK_SIZE

(* C33: while the view state holds no pages (from the return of reset or
   open_document until the next set_pages_from_info) every request the worker
   still has was submitted before that call; the worker emits no result in
   that time and no result is stored in the cache, which the call emptied. *)
C33_NoStaleResults ==
    /\ [](pages = <<>> => CacheEmpty)
    /\ [][(pages = <<>> /\ pages' = <<>>) => Len(result_chan') <= Len(result_chan)]_vars

(* a decode starts *)
DecodeStarts == w_pc # "decoding" /\ w_pc' = "decoding"

(* the keys of the results that wait to be drained *)
UndrainedKeys == {result_chan[i].key : i \in 1..Len(result_chan)}

(* C34: while the cache is not cleared a key is decoded at most once: no
   decode starts for a key whose earlier result waits to be drained or has
   been drained into the cache. *)
C34_DecodedAtMostOnce ==
    [][DecodeStarts
         => /\ w_cur'[1].key \notin UndrainedKeys
            /\ ~has_thumbnail(cache, w_cur'[1].key)]_vars

(* the mutex a thread is waiting for *)
SnapshotLocks == {"visible_rect", "page_bounds_map"}
WorkerWaitsFor(l) ==
    \/ w_pc = "lock_rect" /\ l = "visible_rect"
    \/ w_pc = "lock_map" /\ l = "page_bounds_map"
UiWaitsFor(l) == ui_pc = "uvp_bounds" /\ l = "page_bounds_map"

(* C35: the UI thread never holds both snapshot mutexes, no mutex is held by
   both threads, the two threads never wait for each other, and a worker
   that has entered the visibility check obtains the rectangle lock, then
   the bounds lock, and leaves the check with both released. *)
C35_NoDeadlock ==
    /\ [](~(UiHolds("visible_rect") /\ UiHolds("page_bounds_map")))
    /\ [](\A l \in SnapshotLocks : ~(UiHolds(l) /\ ~LockFree(l)))
    /\ [](~\E l1, l2 \in SnapshotLocks :
              /\ WorkerWaitsFor(l1) /\ UiHolds(l1)
              /\ UiWaitsFor(l2) /\ ~LockFree(l2))
    /\ [][(w_locks' # w_locks /\ w_locks' # <<>>)
           => w_locks' \in {<<"visible_rect">>, <<"visible_rect", "page_bounds_map">>}]_vars
    /\ (w_pc = "lock_rect") ~> (w_locks = <<>> /\ w_pc \in {"decoding", "try_recv"})

(* the worker holds the rectangle and waits for the bounds map, which the UI
   thread holds *)
C35_Witness ==
    /\ w_pc = "lock_map"
    /\ w_locks = <<"visible_rect">>
    /\ ui_pc = "uvp_map_locked"
    /\ WorkerWaitsFor("page_bounds_map")
    /\ UiHolds("page_bounds_map")

(* C36: a request still queued with the previous scale does not suppress the
   request that update_visible_pages sends for the same key after a zoom
   change: once the worker has received the batch, its queue holds every key
   of the batch at the scale the batch asks for. *)
C36_NewScaleNotSuppressed ==
    [][ReceivesBatch
         => \A i \in 1..Len(Head(task_chan).pages) :
                \E j \in 1..Len(task_queue') :
                    /\ task_queue'[j].key = Head(task_chan).pages[i].key
                    /\ task_queue'[j].page_info.scale = Head(task_chan).pages[i].page_info.scale
      ]_vars

(* the tasks whose sender blocks on the response channel *)
SyncTypes == {"LoadDocument", "GetOutline"}

(* C37: the worker reaches the pop of the next render request only from a
   try_recv that found the task channel empty, a decode that ends leads back
   to try_recv, and a synchronous task taken from the channel is answered in
   the same step: a task that is pending when a decode ends is handled before
   the next request is popped. *)
C37_ControlBeforeRender ==
    /\ [][(w_pc # "pop" /\ w_pc' = "pop") => (w_pc = "try_recv" /\ task_chan = <<>>)]_vars
    /\ [][DecodeStarts => w_pc = "pop"]_vars
    /\ [][(w_pc = "decoding" /\ w_pc' # "decoding") => w_pc' = "try_recv"]_vars
    /\ [][(HandlesTask /\ Head(task_chan).type \in SyncTypes)
            => Len(resp_chan') = Len(resp_chan) + 1]_vars

(* a decode has just ended, requests are still queued and a synchronous task
   sent meanwhile is next in the channel *)
C37_Witness ==
    /\ w_pc = "try_recv"
    /\ w_event = "completed"
    /\ task_queue # <<>>
    /\ task_chan # <<>>
    /\ Head(task_chan).type \in SyncTypes

(* C39: an ImageCache of capacity at least 1 never stores more entries than
   its capacity, whatever puts, gets, removes and clears are applied to it. *)
C39_WithinCapacity ==
    /\ cache.image_cache.max_size >= 1
    /\ cache.thumbnail_cache.max_size >= 1
    /\ Len(cache.image_cache.cache) <= cache.image_cache.max_size
    /\ Len(cache.thumbnail_cache.cache) <= cache.thumbnail_cache.max_size
    /\ Cardinality(CacheKeys(cache.image_cache)) = Len(cache.image_cache.cache)
    /\ Cardinality(CacheKeys(cache.thumbnail_cache)) = Len(cache.thumbnail_cache.cache)

(* a put of a new key on a full cache has evicted an entry and the cache is
   full again *)
C39_Witness ==
    /\ last_call.op = "put_page_image"
    /\ last_call.ret = Some(1)
    /\ Len(cache.image_cache.cache) = cache.image_cache.max_size
    /\ cache.image_cache.max_size >= 2

(* C40: a put of a key that is already stored leaves the set of stored keys
   unchanged, also when the cache is at capacity. *)
C40_RePutKeepsKeys ==
    [][\A i \in CachePageInputs, zm \in ZoomInputs :
           (CallPutPageImage(i, zm) /\ CacheHas(cache.image_cache, PageKey(i, zm)))
               => CacheKeys(cache.image_cache') = CacheKeys(cache.image_cache)
      ]_vars

(* the visible page at position n of visible_pages has its image in cache ch *)
VisibleCachedIn(ch, n) ==
    has_thumbnail(ch, generate_thumbnail_key(pages[visible_pages[n] + 1]))

VisibleFits ==
    /\ visible_pages # <<>>
    /\ Len(visible_pages) <= cache.thumbnail_cache.max_size

(* C38: with a viewport that no longer changes, decodes that succeed and no
   more visible pages than the thumbnail cache holds, draining results never
   removes the image of a visible page from the cache, and a state is
   eventually reached in which every visible page's image is cached and the
   task queue is empty. *)
C38_VisibleConverge ==
    /\ [][(drain_results /\ VisibleFits)
            => \A n \in 1..Len(visible_pages) :
                   VisibleCachedIn(cache, n) => VisibleCachedIn(cache', n)]_vars
    /\ VisibleFits
           ~> (/\ \A n \in 1..Len(visible_pages) : VisibleCachedIn(cache, n)
               /\ task_queue = <<>>)

====
